---- MODULE Spec2Model ----
(***************************************************************************)
(* Model of the latinepi repository: the span-adjusting spacing fixer, the  *)
(* annotation rule engine, the pattern extractor and the hybrid            *)
(* orchestrator.  Texts are sequences of one-character strings; offsets    *)
(* are Python's 0-based half-open offsets.                                 *)
(***************************************************************************)
EXTENDS Integers, Sequences, FiniteSets, TLC

VARIABLES
  \* fix_spacing_with_annotations: its arguments, its locals on return
  sp_pc, text, annotations, current_text, adjustments, adjusted_annotations,
  \* fix_single_annotation: its arguments, its result, and the result of
  \* applying it to that result
  rc_pc, transcription, rc_annotations, final, final_again,
  \* _extract_entities_stub: its argument and its result
  pt_pc, pt_text, pt_entities,
  \* HybridLatinParser: the parser object, the module globals that hold the
  \* backends, the state of the cltk library, and of a call of
  \* extract_entities its arguments, what analyze answered, what each phase
  \* found, and its result or exception
  hy_pc, hy_parser, _MORPHOLOGY_ANALYZER, _DEPENDENCY_PARSER, cltk,
  hy_text, hy_verbose, hy_analyses, hy_phases, hy_result, hy_exception,
  \* the call that will be made: its text, with what Phase 0, Phase 1 and
  \* the backend compute from that text alone
  hy_call,
  \* _merge_entities: its arguments and its result
  mg_pc, mg_existing, mg_new, mg_verbose, mg_phase_name, mg_merged,
  \* _consolidate_entities: its argument and its result
  cs_pc, cs_entities, cs_consolidated,
  \* the file writers: which writer ran, the record read from the input line
  \* and the record written to the output file
  fw_pc, fw_writer, fw_record, fw_written,
  \* extract_with_grammar_templates: its argument and its result
  gr_pc, gr_text, gr_entities,
  \* the tagging backends over the life of a process: the backend objects
  \* created so far, the two module globals (0: the name is not in
  \* globals()), the HybridLatinParser instances, the number of
  \* extract_entities calls made, and, as history, the objects the getters
  \* returned and the NLP pipelines each object has loaded
  bk_objects, bk_MORPHOLOGY_ANALYZER, bk_DEPENDENCY_PARSER, bk_parsers,
  bk_calls, bk_returned, bk_loads,
  \* search_edh_inscriptions: its argument max_results, its locals all_items
  \* (the number of items held), offset and saved_files (the number of
  \* paths), and the number of page requests sent
  ed_pc, max_results, all_items, offset, saved_files, ed_requests,
  \* _roman_to_arabic and the years-lived step of the pattern extractor: the
  \* number a numeral is written for, the numeral, the number returned for
  \* it, and the entities extracted from the text "an <numeral>"
  rn_pc, rn_number, rn_roman, rn_arabic, rn_entities,
  \* find_and_merge_formulas: its argument and its result
  fm_pc, fm_text, fm_formulas,
  \* Phase 3 of search_edh_inscriptions: the arguments workers and resume,
  \* the items found (each its inscription id, 0 when it has none), the ids
  \* whose file is on disk, of each item its future's state, its result, how
  \* often it was submitted and how often its save was attempted, the
  \* futures as_completed has handed out, and saved_files
  dl_pc, dl_workers, dl_resume, dl_items, dl_files, dl_futures, dl_results,
  dl_submits, dl_attempts, dl_collected, dl_saved_files

sp_vars == <<sp_pc, text, annotations, current_text, adjustments,
             adjusted_annotations>>
rc_vars == <<rc_pc, transcription, rc_annotations, final, final_again>>
pt_vars == <<pt_pc, pt_text, pt_entities>>
hy_vars == <<hy_pc, hy_parser, _MORPHOLOGY_ANALYZER, _DEPENDENCY_PARSER, cltk,
             hy_text, hy_verbose, hy_analyses, hy_phases, hy_result,
             hy_exception, hy_call>>
mg_vars == <<mg_pc, mg_existing, mg_new, mg_verbose, mg_phase_name, mg_merged>>
cs_vars == <<cs_pc, cs_entities, cs_consolidated>>
old_vars == <<sp_vars, rc_vars, pt_vars, hy_vars, mg_vars, cs_vars>>
fw_vars == <<fw_pc, fw_writer, fw_record, fw_written>>
\* the components of the second part of the module
gr_vars == <<gr_pc, gr_text, gr_entities>>
bk_vars == <<bk_objects, bk_MORPHOLOGY_ANALYZER, bk_DEPENDENCY_PARSER,
             bk_parsers, bk_calls, bk_returned, bk_loads>>
ed_vars == <<ed_pc, max_results, all_items, offset, saved_files, ed_requests>>
\* the components of the third part of the module
rn_vars == <<rn_pc, rn_number, rn_roman, rn_arabic, rn_entities>>
fm_vars == <<fm_pc, fm_text, fm_formulas>>
dl_vars == <<dl_pc, dl_workers, dl_resume, dl_items, dl_files, dl_futures,
             dl_results, dl_submits, dl_attempts, dl_collected, dl_saved_files>>
lt_vars == <<rn_vars, fm_vars, dl_vars>>
nw_vars == <<fw_vars, gr_vars, bk_vars, ed_vars, lt_vars>>
vars == <<old_vars, nw_vars>>

\* a component that is not the one under study stays as constructed
SpacingIdle ==
  /\ sp_pc = "idle" /\ text = << >> /\ annotations = << >>
  /\ current_text = << >> /\ adjustments = << >> /\ adjusted_annotations = << >>
ReconcileIdle ==
  /\ rc_pc = "idle" /\ transcription = << >> /\ rc_annotations = << >>
  /\ final = << >> /\ final_again = << >>
PatternIdle ==
  /\ pt_pc = "idle" /\ pt_text = << >> /\ pt_entities = << >>
HybridIdle ==
  /\ hy_pc = "idle" /\ hy_parser = << >>
  /\ _MORPHOLOGY_ANALYZER = << >> /\ _DEPENDENCY_PARSER = << >>
  /\ cltk = "idle" /\ hy_text = << >> /\ hy_verbose = FALSE
  /\ hy_analyses = << >> /\ hy_phases = << >> /\ hy_result = << >>
  /\ hy_exception = "none" /\ hy_call = << >>
MergeIdle ==
  /\ mg_pc = "idle" /\ mg_existing = << >> /\ mg_new = << >>
  /\ mg_verbose = FALSE /\ mg_phase_name = "" /\ mg_merged = << >>
ConsolidateIdle ==
  /\ cs_pc = "idle" /\ cs_entities = << >> /\ cs_consolidated = << >>
FileWritersIdle ==
  /\ fw_pc = "idle" /\ fw_writer = "" /\ fw_record = << >> /\ fw_written = << >>
GrammarIdle ==
  /\ gr_pc = "idle" /\ gr_text = << >> /\ gr_entities = << >>
BackendsIdle ==
  /\ bk_objects = << >> /\ bk_MORPHOLOGY_ANALYZER = 0
  /\ bk_DEPENDENCY_PARSER = 0 /\ bk_parsers = << >> /\ bk_calls = 0
  /\ bk_returned = {} /\ bk_loads = << >>
EdhIdle ==
  /\ ed_pc = "idle" /\ max_results = 0 /\ all_items = 0 /\ offset = 0
  /\ saved_files = 0 /\ ed_requests = 0
RomanIdle ==
  /\ rn_pc = "idle" /\ rn_number = 0 /\ rn_roman = << >> /\ rn_arabic = 0
  /\ rn_entities = << >>
FormulasIdle ==
  /\ fm_pc = "idle" /\ fm_text = << >> /\ fm_formulas = << >>
DownloadIdle ==
  /\ dl_pc = "idle" /\ dl_workers = 0 /\ dl_resume = FALSE /\ dl_items = << >>
  /\ dl_files = {} /\ dl_futures = << >> /\ dl_results = << >>
  /\ dl_submits = << >> /\ dl_attempts = << >> /\ dl_collected = {}
  /\ dl_saved_files = << >>
LaterIdle == RomanIdle /\ FormulasIdle /\ DownloadIdle
NewIdle ==
  FileWritersIdle /\ GrammarIdle /\ BackendsIdle /\ EdhIdle /\ LaterIdle

(***************************************************************************)
(* Characters and the regular-expression primitives the sources use.       *)
(***************************************************************************)
Lowercase == {"a","b","c","d","e","f","g","h","i","j","k","l","m",
              "n","o","p","q","r","s","t","u","v","w","x","y","z"}
Uppercase == {"A","B","C","D","E","F","G","H","I","J","K","L","M",
              "N","O","P","Q","R","S","T","U","V","W","X","Y","Z"}

\* \w of Python's re on the characters the model uses
IsWord(c) == c \in Lowercase \cup Uppercase

\* \s
IsSpace(c) == c = " "

\* \b at 1-based position i (between text[i-1] and text[i])
WordBoundary(t, i) ==
  LET before == i > 1 /\ i - 1 <= Len(t) /\ IsWord(t[i-1])
      after  == i >= 1 /\ i <= Len(t) /\ IsWord(t[i])
  IN before # after

\* the literal lit occurs in t at 1-based position i
LitAt(t, i, lit) ==
  /\ i >= 1
  /\ i + Len(lit) - 1 <= Len(t)
  /\ \A k \in 1..Len(lit) : t[i + k - 1] = lit[k]

\* first position >= i that holds no whitespace (greedy \s*)
RECURSIVE SkipSpaces(_, _)
SkipSpaces(t, i) ==
  IF i <= Len(t) /\ IsSpace(t[i]) THEN SkipSpaces(t, i + 1) ELSE i

\* Python slice t[a:b] with 0 <= a, on 0-based offsets
Slice(t, a, b) ==
  LET hi == IF b > Len(t) THEN Len(t) ELSE b
  IN IF a >= hi THEN << >> ELSE [k \in 1..(hi - a) |-> t[a + k]]

\* A pattern \bP1<gap>P2...<gap>Pn\b, <gap> being \s+ (min_gap = 1) or \s*
\* (min_gap = 0): the end (1-based, exclusive) of the match of parts[k..] at
\* position i, 0 if none.  Every part starts with a letter, so the greedy gap
\* takes all the whitespace there is.
RECURSIVE MatchParts(_, _, _, _, _)
MatchParts(t, i, parts, k, min_gap) ==
  IF ~LitAt(t, i, parts[k]) THEN 0
  ELSE LET j == i + Len(parts[k]) IN
       IF k = Len(parts)
       THEN (IF WordBoundary(t, j) THEN j ELSE 0)
       ELSE LET j2 == SkipSpaces(t, j) IN
            IF j2 - j < min_gap THEN 0
            ELSE MatchParts(t, j2, parts, k + 1, min_gap)

\* the match of the pattern that starts at position i, 0 if none
MatchAt(t, i, parts, min_gap) ==
  IF i <= Len(t) /\ t[i] = parts[1][1] /\ WordBoundary(t, i)
  THEN MatchParts(t, i, parts, 1, min_gap) ELSE 0

\* str.lower() on the model's characters
LowerSeq == <<"a","b","c","d","e","f","g","h","i","j","k","l","m",
              "n","o","p","q","r","s","t","u","v","w","x","y","z">>
UpperSeq == <<"A","B","C","D","E","F","G","H","I","J","K","L","M",
              "N","O","P","Q","R","S","T","U","V","W","X","Y","Z">>
Lower(c) ==
  IF c \in Uppercase THEN LowerSeq[CHOOSE i \in 1..26 : UpperSeq[i] = c] ELSE c
LowerText(t) == [k \in 1..Len(t) |-> Lower(t[k])]

\* str.strip()
Strip(t) ==
  LET inked == {i \in 1..Len(t) : ~IsSpace(t[i])}
  IN IF inked = {} THEN << >>
     ELSE SubSeq(t, CHOOSE i \in inked : \A j \in inked : i <= j,
                    CHOOSE i \in inked : \A j \in inked : j <= i)

\* lit in t
Contains(t, lit) == \E i \in 1..Len(t) : LitAt(t, i, lit)

\* list.sort(key=...): a stable sort of the items x by key Key(x), given as
\* the sequence of <<key, item>>; a key is a tuple of integers, compared as
\* Python compares tuples
RECURSIVE KeyLess(_, _)
KeyLess(k1, k2) ==
  IF k1 = << >> \/ k2 = << >> THEN k1 = << >> /\ k2 # << >>
  ELSE IF Head(k1) # Head(k2) THEN Head(k1) < Head(k2)
  ELSE KeyLess(Tail(k1), Tail(k2))

RECURSIVE InsertStable(_, _)
InsertStable(sorted, x) ==
  IF sorted = << >> THEN <<x>>
  ELSE IF KeyLess(x[1], sorted[Len(sorted)][1])
       THEN Append(InsertStable(SubSeq(sorted, 1, Len(sorted) - 1), x),
                   sorted[Len(sorted)])
       ELSE Append(sorted, x)

RECURSIVE SortKeyed(_)
SortKeyed(xs) ==
  IF xs = << >> THEN << >>
  ELSE InsertStable(SortKeyed(SubSeq(xs, 1, Len(xs) - 1)), xs[Len(xs)])

SortStable(keyed) ==
  LET sorted == SortKeyed(keyed) IN [i \in 1..Len(keyed) |-> sorted[i][2]]

(***************************************************************************)
(* fix_spacing_with_annotations (src/fix_spacing_and_adjust_annotations.py)*)
(***************************************************************************)
\* the table of (pattern, replacement): a pattern \bP1\s+P2...\s+Pn\b is the
\* sequence of its literal parts
fixes ==
  <<
    [parts |-> << <<"A","n","t","o">>, <<"n","i","n","i">> >>, replacement |-> <<"A","n","t","o","n","i","n","i">>],
    [parts |-> << <<"A","u","r","e">>, <<"l","i">> >>, replacement |-> <<"A","u","r","e","l","i">>],
    [parts |-> << <<"A","u","r","e">>, <<"l","i","u","s">> >>, replacement |-> <<"A","u","r","e","l","i","u","s">>],
    [parts |-> << <<"A","u","r","e">>, <<"l","i","o">> >>, replacement |-> <<"A","u","r","e","l","i","o">>],
    [parts |-> << <<"L","u","c","r","e","t","i","u">>, <<"s">> >>, replacement |-> <<"L","u","c","r","e","t","i","u","s">>],
    [parts |-> << <<"C","a","t","u","r","o","n","i">>, <<"s">> >>, replacement |-> <<"C","a","t","u","r","o","n","i","s">>],
    [parts |-> << <<"C","o","r","n">>, <<"e","l","i","u","s">> >>, replacement |-> <<"C","o","r","n","e","l","i","u","s">>],
    [parts |-> << <<"C","o","r","n">>, <<"e","l","i","a">> >>, replacement |-> <<"C","o","r","n","e","l","i","a">>],
    [parts |-> << <<"h","i","c">>, <<"s","i","t","a">>, <<"e">>, <<"s","t">> >>, replacement |-> <<"h","i","c"," ","s","i","t","a"," ","e","s","t">>],
    [parts |-> << <<"s","i","t","a">>, <<"e">>, <<"s","t">> >>, replacement |-> <<"s","i","t","a"," ","e","s","t">>],
    [parts |-> << <<"s","i","t","u","s">>, <<"e">>, <<"s","t">> >>, replacement |-> <<"s","i","t","u","s"," ","e","s","t">>],
    [parts |-> << <<"a","n">>, <<"n","o","r","u","m">> >>, replacement |-> <<"a","n","n","o","r","u","m">>],
    [parts |-> << <<"a","n">>, <<"n","o","s">> >>, replacement |-> <<"a","n","n","o","s">>],
    [parts |-> << <<"a","n">>, <<"n","i","s">> >>, replacement |-> <<"a","n","n","i","s">>],
    [parts |-> << <<"a","n">>, <<"n","u","m">> >>, replacement |-> <<"a","n","n","u","m">>],
    [parts |-> << <<"a","n">>, <<"n","o">> >>, replacement |-> <<"a","n","n","o">>],
    [parts |-> << <<"m","e","n">>, <<"s","i","s">> >>, replacement |-> <<"m","e","n","s","i","s">>],
    [parts |-> << <<"m","e","n">>, <<"s","e","s">> >>, replacement |-> <<"m","e","n","s","e","s">>],
    [parts |-> << <<"m","e","n">>, <<"s","i","b","u","s">> >>, replacement |-> <<"m","e","n","s","i","b","u","s">>],
    [parts |-> << <<"d","i","e">>, <<"b","u","s">> >>, replacement |-> <<"d","i","e","b","u","s">>],
    [parts |-> << <<"d","i","e">>, <<"r","u","m">> >>, replacement |-> <<"d","i","e","r","u","m">>],
    [parts |-> << <<"v","i","x">>, <<"i","t">> >>, replacement |-> <<"v","i","x","i","t">>],
    [parts |-> << <<"v","i","x">>, <<"s","i","t">> >>, replacement |-> <<"v","i","x","i","t">>],
    [parts |-> << <<"v","i">>, <<"x","i","t">> >>, replacement |-> <<"v","i","x","i","t">>],
    [parts |-> << <<"v","i">>, <<"v","u","s">> >>, replacement |-> <<"v","i","v","u","s">>],
    [parts |-> << <<"f","e">>, <<"c","i","t">> >>, replacement |-> <<"f","e","c","i","t">>],
    [parts |-> << <<"f","e">>, <<"c","e","r","u","n","t">> >>, replacement |-> <<"f","e","c","e","r","u","n","t">>],
    [parts |-> << <<"p","o">>, <<"s","u","i","t">> >>, replacement |-> <<"p","o","s","u","i","t">>],
    [parts |-> << <<"m","i","l","i","t","a">>, <<"v","i","t">> >>, replacement |-> <<"m","i","l","i","t","a","v","i","t">>],
    [parts |-> << <<"f","i","l","i">>, <<"o">> >>, replacement |-> <<"f","i","l","i","o">>],
    [parts |-> << <<"f","i","l","i">>, <<"u","s">> >>, replacement |-> <<"f","i","l","i","u","s">>],
    [parts |-> << <<"f","i","l","i">>, <<"a">> >>, replacement |-> <<"f","i","l","i","a">>],
    [parts |-> << <<"f","i","l","i">>, <<"a","e">> >>, replacement |-> <<"f","i","l","i","a","e">>],
    [parts |-> << <<"f","i","l","i">>, <<"i">> >>, replacement |-> <<"f","i","l","i","i">>],
    [parts |-> << <<"u","x","o">>, <<"r","i">> >>, replacement |-> <<"u","x","o","r","i">>],
    [parts |-> << <<"c","o","n","i","u">>, <<"g","i">> >>, replacement |-> <<"c","o","n","i","u","g","i">>],
    [parts |-> << <<"c","o","n","i","u">>, <<"x">> >>, replacement |-> <<"c","o","n","i","u","x">>],
    [parts |-> << <<"p","a","t">>, <<"r","i">> >>, replacement |-> <<"p","a","t","r","i">>],
    [parts |-> << <<"m","a","t">>, <<"r","i">> >>, replacement |-> <<"m","a","t","r","i">>],
    [parts |-> << <<"c","a","r","i">>, <<"s","s","i","m","o">> >>, replacement |-> <<"c","a","r","i","s","s","i","m","o">>],
    [parts |-> << <<"c","a","r","i">>, <<"s","s","i","m","a","e">> >>, replacement |-> <<"c","a","r","i","s","s","i","m","a","e">>],
    [parts |-> << <<"c","a","r","i">>, <<"s","s","i","m","i">> >>, replacement |-> <<"c","a","r","i","s","s","i","m","i">>],
    [parts |-> << <<"d","u","l","c","i","s">>, <<"s","i","m","o">> >>, replacement |-> <<"d","u","l","c","i","s","s","i","m","o">>],
    [parts |-> << <<"d","u","l","c","i","s">>, <<"s","i","m","a","e">> >>, replacement |-> <<"d","u","l","c","i","s","s","i","m","a","e">>],
    [parts |-> << <<"d","u","l","c","i","s">>, <<"s","i","m","i">> >>, replacement |-> <<"d","u","l","c","i","s","s","i","m","i">>],
    [parts |-> << <<"p","i","e","n","t","i","s">>, <<"s","i","m","o">> >>, replacement |-> <<"p","i","e","n","t","i","s","s","i","m","o">>],
    [parts |-> << <<"p","i","e","n","t","i","s">>, <<"s","i","m","a","e">> >>, replacement |-> <<"p","i","e","n","t","i","s","s","i","m","a","e">>],
    [parts |-> << <<"p","i","e","n","t","i","s">>, <<"s","i","m","i">> >>, replacement |-> <<"p","i","e","n","t","i","s","s","i","m","i">>],
    [parts |-> << <<"s","a","n","c","t","i","s">>, <<"s","i","m","a","e">> >>, replacement |-> <<"s","a","n","c","t","i","s","s","i","m","a","e">>],
    [parts |-> << <<"o","p","t","i","m">>, <<"o">> >>, replacement |-> <<"o","p","t","i","m","o">>],
    [parts |-> << <<"o","p","t","i","m">>, <<"a","e">> >>, replacement |-> <<"o","p","t","i","m","a","e">>],
    [parts |-> << <<"p","a","t","r","i">>, <<"b","u","s">> >>, replacement |-> <<"p","a","t","r","i","b","u","s">>],
    [parts |-> << <<"l","i","b","e","r","t","o">>, <<"r","u","m">> >>, replacement |-> <<"l","i","b","e","r","t","o","r","u","m">>],
    [parts |-> << <<"l","i","b","e","r","t","o">>, <<"o">> >>, replacement |-> <<"l","i","b","e","r","t","o","o">>],
    [parts |-> << <<"m","e","r">>, <<"e","n","t","i">> >>, replacement |-> <<"m","e","r","e","n","t","i">>],
    [parts |-> << <<"m","e","r">>, <<"i","t","o">> >>, replacement |-> <<"m","e","r","i","t","o">>],
    [parts |-> << <<"m","e","s","s","i","b","u","s">> >>, replacement |-> <<"m","e","n","s","i","b","u","s">>]
  >>


\* re.finditer(pattern, current_text), first match only: <<start, end>> in
\* 0-based offsets, << >> when the pattern does not match
FirstMatch(t, parts) ==
  LET starts == {i \in 1..Len(t) :
                   MatchAt(t, i, parts, 1) # 0}
  IN IF starts = {} THEN << >>
     ELSE LET i == CHOOSE x \in starts : \A y \in starts : x <= y
          IN <<i - 1, MatchAt(t, i, parts, 1) - 1>>

\* the loop over fixes (lines 97-114): at most one replacement per pattern,
\* each recorded at its position in the text as it is at that moment
RECURSIVE ApplyFixes(_, _, _)
ApplyFixes(t, adj, k) ==
  IF k > Len(fixes) THEN [current_text |-> t, adjustments |-> adj]
  ELSE LET m == FirstMatch(t, fixes[k].parts) IN
       IF m = << >> THEN ApplyFixes(t, adj, k + 1)
       ELSE LET start_pos == m[1]
                end_pos == m[2]
                replacement == fixes[k].replacement
                length_change == Len(replacement) - (end_pos - start_pos)
            IN ApplyFixes(Slice(t, 0, start_pos) \o replacement
                            \o Slice(t, end_pos, Len(t)),
                          Append(adj, [adj_start |-> start_pos,
                                       adj_end |-> end_pos,
                                       length_change |-> length_change]),
                          k + 1)

\* (the loop over the adjustments taken by ascending position in the text)
RECURSIVE AscendingLoop(_, _, _, _, _, _)
AscendingLoop(start, end, new_start, new_end, adj, k) ==
  IF k > Len(adj) THEN <<new_start, new_end>>
  ELSE LET a == adj[k] IN
       IF a.adj_end <= start
       THEN AscendingLoop(start, end, new_start + a.length_change,
                          new_end + a.length_change, adj, k + 1)
       ELSE IF a.adj_start <= start /\ start < a.adj_end
       THEN AscendingLoop(start, end, a.adj_start,
                          new_end + a.length_change, adj, k + 1)
       ELSE IF start < a.adj_start /\ a.adj_start < end
       THEN AscendingLoop(start, end, new_start,
                          new_end + a.length_change, adj, k + 1)
       ELSE AscendingLoop(start, end, new_start, new_end, adj, k + 1)
AdjustSpanAscending(start, end, new_start, new_end, adj, k) ==
  AscendingLoop(start, end, new_start, new_end,
                SortStable([i \in 1..Len(adj) |-> << <<adj[i].adj_start>>, adj[i] >>]),
                k)

\* the loop over adjustments for one annotation (lines 130-144); the tests
\* read the annotation's original start and end
RECURSIVE AdjustSpan(_, _, _, _, _, _)
AdjustSpan(start, end, new_start, new_end, adj, k) ==
  IF k > Len(adj) THEN <<new_start, new_end>>
  ELSE LET a == adj[k] IN
       IF a.adj_end <= start
       THEN AdjustSpan(start, end, new_start + a.length_change,
                       new_end + a.length_change, adj, k + 1)
       ELSE IF a.adj_start <= start /\ start < a.adj_end
       THEN AdjustSpan(start, end, a.adj_start,
                       new_end + a.length_change, adj, k + 1)
       ELSE IF start < a.adj_start /\ a.adj_start < end
       THEN AdjustSpan(start, end, new_start,
                       new_end + a.length_change, adj, k + 1)
       ELSE AdjustSpan(start, end, new_start, new_end, adj, k + 1)

\* (mutant of ValidSpan: an empty span passes)
ValidSpanAllowsEmpty(s, e, n) == 0 <= s /\ s <= e /\ e <= n

\* line 147: only annotations with valid positions are kept
ValidSpan(s, e, n) == 0 <= s /\ s < e /\ e <= n

\* the loop over annotations (lines 119-148)
RECURSIVE AdjustAnnotations(_, _, _)
AdjustAnnotations(anns, adj, n) ==
  IF anns = << >> THEN << >>
  ELSE LET ann == Head(anns)
           rest == AdjustAnnotations(Tail(anns), adj, n)
       IN IF Len(ann) # 3 THEN <<ann>> \o rest
          ELSE LET new == AdjustSpan(ann[1], ann[2], ann[1], ann[2], adj, 1)
               IN IF ValidSpan(new[1], new[2], n)
                  THEN << <<new[1], new[2], ann[3]>> >> \o rest
                  ELSE rest

\* the words the input transcriptions are built from
SpacingVocab ==
  { <<"A","n","t","o"," ","n","i","n","i">>,
    <<"A","u","r","e"," "," ","l","i">>,
    <<"v","i","x"," ","i","t">>,
    <<"p","a","t"," ","r","i">>,
    <<"b","u","s">>,
    <<"X">> }

MaxTokens == 3

RECURSIVE JoinWords(_)
JoinWords(ws) ==
  IF Len(ws) = 1 THEN ws[1] ELSE ws[1] \o <<" ">> \o JoinWords(Tail(ws))

SpacingTexts ==
  UNION { { JoinWords(ws) : ws \in [1..n -> SpacingVocab] } : n \in 1..MaxTokens }

\* one annotation with any offsets around the text, then optionally one of a
\* few fixed ones (a span over the whole text, a malformed two-element one)
SpanAnnotations(t) ==
  { <<s, e, "COGNOMEN">> : s \in (-1)..Len(t), e \in 0..(Len(t) + 1) }
SecondAnnotations(t) == { <<0, Len(t), "NOMEN">>, <<0, 1>> }
AnnotationLists(t) ==
  {<< >>} \cup { <<a>> : a \in SpanAnnotations(t) }
          \cup { <<a, b>> : a \in SpanAnnotations(t), b \in SecondAnnotations(t) }

InitSpacing ==
  /\ sp_pc = "ready"
  /\ text \in SpacingTexts
  /\ annotations = << >>
  /\ current_text = << >>
  /\ adjustments = << >>
  /\ adjusted_annotations = << >>
  /\ ReconcileIdle
  /\ PatternIdle
  /\ HybridIdle
  /\ MergeIdle
  /\ ConsolidateIdle
  /\ NewIdle

\* one call of fix_spacing_with_annotations(text, annotations)
FixSpacingWithAnnotations ==
  /\ sp_pc = "ready"
  /\ \E fixed \in {ApplyFixes(text, << >>, 1)} :
     \E anns \in AnnotationLists(text) :
       /\ annotations' = anns
       /\ current_text' = fixed.current_text
       /\ adjustments' = fixed.adjustments
       /\ adjusted_annotations' =
            AdjustAnnotations(anns, fixed.adjustments, Len(fixed.current_text))
  /\ sp_pc' = "done"
  /\ UNCHANGED text
  /\ UNCHANGED <<rc_vars, pt_vars, hy_vars, mg_vars, cs_vars, nw_vars>>

NextSpacing == FixSpacingWithAnnotations

SpecSpacing == InitSpacing /\ [][NextSpacing]_vars

(***************************************************************************)
(* Claims about fix_spacing_with_annotations.                              *)
(***************************************************************************)
\* the span the code's rules (lines 130-144) give an input annotation
RecomputedSpan(ann) ==
  AdjustSpan(ann[1], ann[2], ann[1], ann[2], adjustments, 1)

\* input annotations that come out again: the non-triples, kept as they are,
\* and the triples whose recomputed span lies inside the new text
SurvivingInputs ==
  { i \in 1..Len(annotations) :
      \/ Len(annotations[i]) # 3
      \/ LET new == RecomputedSpan(annotations[i])
         IN 0 <= new[1] /\ new[1] < new[2] /\ new[2] <= Len(current_text) }

\* C1: every annotation (s, e, label) in the output of
\* fix_spacing_with_annotations has 0 <= s < e <= len(new_text), so that
\* new_text[s:e] is non-empty, and an annotation whose recomputed span is
\* invalid is dropped (the output holds nothing in its place), not repaired.
C1_OffsetValidity ==
  sp_pc = "done" =>
    /\ \A i \in 1..Len(adjusted_annotations) :
         LET a == adjusted_annotations[i] IN
         Len(a) = 3 =>
           /\ 0 <= a[1] /\ a[1] < a[2] /\ a[2] <= Len(current_text)
           /\ Slice(current_text, a[1], a[2]) # << >>
    /\ Len(adjusted_annotations) = Cardinality(SurvivingInputs)

\* C1 witness: after a real replacement, an annotation that was valid in the
\* input is dropped and another one is kept at shifted offsets.
C1_Witness ==
  /\ sp_pc = "done"
  /\ adjustments # << >>
  /\ Len(annotations) = 2
  /\ Len(adjusted_annotations) = 1
  /\ Len(annotations[2]) = 3
  /\ Len(adjusted_annotations[1]) = 3
  /\ 0 <= annotations[1][1] /\ annotations[1][1] < annotations[1][2]
  /\ annotations[1][2] <= Len(text)
  /\ adjusted_annotations[1][3] = "NOMEN"
  /\ adjusted_annotations[1][2] # annotations[2][2]

\* position p of the text after replacement j, in the text before it (a
\* position inside the replaced text goes to the edge of the region replaced)
BackOne(p, a, isEnd) ==
  IF p <= a.adj_start THEN p
  ELSE IF p >= a.adj_end + a.length_change THEN p - a.length_change
  ELSE IF isEnd THEN a.adj_end ELSE a.adj_start

RECURSIVE BackTo(_, _, _)
BackTo(p, j, isEnd) ==
  IF j = 0 THEN p ELSE BackTo(BackOne(p, adjustments[j], isEnd), j - 1, isEnd)

\* the region of the ORIGINAL text that replacement k replaced
OrigStart(k) == BackTo(adjustments[k].adj_start, k - 1, FALSE)
OrigEnd(k) == BackTo(adjustments[k].adj_end, k - 1, TRUE)

RECURSIVE DeltaBefore(_, _)
DeltaBefore(s, k) ==
  IF k = 0 THEN 0
  ELSE (IF OrigEnd(k) <= s THEN adjustments[k].length_change ELSE 0)
       + DeltaBefore(s, k - 1)

OverlapsNoReplacement(ann) ==
  \A k \in 1..Len(adjustments) :
    ann[2] <= OrigStart(k) \/ OrigEnd(k) <= ann[1]

\* C10: every (valid) annotation that overlaps no replaced region is kept and
\* covers in the new text the surface text it covered in the original: its
\* start and end are both shifted by the sum of the length deltas of the
\* replacements before it (by nothing when it lies before them all).
C10_UntouchedAnnotationsFollowText ==
  sp_pc = "done" =>
    \A i \in 1..Len(annotations) :
      LET ann == annotations[i] IN
      ( /\ Len(ann) = 3
        /\ 0 <= ann[1] /\ ann[1] < ann[2] /\ ann[2] <= Len(text)
        /\ OverlapsNoReplacement(ann) ) =>
      LET d == DeltaBefore(ann[1], Len(adjustments)) IN
      /\ \E j \in 1..Len(adjusted_annotations) :
           adjusted_annotations[j] = <<ann[1] + d, ann[2] + d, ann[3]>>
      /\ Slice(current_text, ann[1] + d, ann[2] + d) = Slice(text, ann[1], ann[2])

\* the replacements whose region of the original text lies inside ann
InsideReplacements(ann) ==
  {k \in 1..Len(adjustments) : ann[1] <= OrigStart(k) /\ OrigEnd(k) <= ann[2]}

RECURSIVE DeltaInside(_, _)
DeltaInside(ann, k) ==
  IF k = 0 THEN 0
  ELSE (IF k \in InsideReplacements(ann) THEN adjustments[k].length_change
        ELSE 0)
       + DeltaInside(ann, k - 1)

\* C11: a replacement lying inside an annotation moves only the annotation's
\* end, by the replacement's length delta: an annotation that every
\* replacement lies inside, wholly before or wholly after comes out with its
\* start shifted by the deltas of the replacements before it alone and its
\* end by those and the deltas of the replacements inside it ("Anto nini"
\* under one annotation over both fragments: start unchanged, end one less).
C11_InsideReplacementMovesEnd ==
  sp_pc = "done" =>
    \A i \in 1..Len(annotations) :
      LET ann == annotations[i] IN
      ( /\ Len(ann) = 3
        /\ 0 <= ann[1] /\ ann[1] < ann[2] /\ ann[2] <= Len(text)
        /\ InsideReplacements(ann) # {}
        /\ \A k \in 1..Len(adjustments) :
             \/ k \in InsideReplacements(ann)
             \/ OrigEnd(k) <= ann[1]
             \/ ann[2] <= OrigStart(k) ) =>
      LET before == DeltaBefore(ann[1], Len(adjustments))
          inside == DeltaInside(ann, Len(adjustments))
      IN \E j \in 1..Len(adjusted_annotations) :
           adjusted_annotations[j] =
             <<ann[1] + before, ann[2] + before + inside, ann[3]>>

\* C11 for one replacement: the scenario of the claim and every other text
\* with a single broken word
C11_SingleReplacementMovesEnd ==
  Len(adjustments) <= 1 => C11_InsideReplacementMovesEnd

\* the scenario of C11: "Anto nini" becomes "Antonini" and the annotation
\* over both fragments keeps its start and ends one character earlier
C11_Scenario ==
  /\ sp_pc = "done"
  /\ text = <<"A","n","t","o"," ","n","i","n","i">>
  /\ current_text = <<"A","n","t","o","n","i","n","i">>
  /\ annotations = << <<0, 9, "COGNOMEN">> >>
  /\ adjusted_annotations = << <<0, 8, "COGNOMEN">> >>

(***************************************************************************)
(* fix_single_annotation and its helpers (src/fix_annotations_v3.py)       *)
(***************************************************************************)
normalize_text(t) == Strip(LowerText(t))

extract_text(t, start, end) ==
  IF 0 <= start /\ start < end /\ end <= Len(t) THEN Slice(t, start, end)
  ELSE << >>

\* lines 33-43
adjectives ==
  { <<"p","i","a">>, <<"p","i","u","s">>, <<"p","i","a","e">>, <<"p","i","i">>,
    <<"p","i","e","n","t","i","s","s","i","m","o">>,
    <<"p","i","e","n","t","i","s","s","i","m","a","e">>, <<"p","i","e","n","t","i","s">>,
    <<"c","a","r","i","s","s","i","m","a","e">>, <<"c","a","r","i","s","s","i","m","o">>,
    <<"c","a","r","i","s","s","i","m","i">>, <<"c","a","r","i","s","s","i","m","u","s">>,
    <<"d","u","l","c","i","s","s","i","m","o">>, <<"d","u","l","c","i","s","s","i","m","a","e">>,
    <<"d","u","l","c","i","s","s","i","m","i">>, <<"d","u","l","c","i","s","s","i","m","u","s">>,
    <<"o","p","t","i","m","o">>, <<"o","p","t","i","m","a","e">>, <<"o","p","t","i","m","i">>,
    <<"o","p","t","i","m","u","s">>, <<"s","a","n","c","t","i","s","s","i","m","a","e">>,
    <<"s","a","n","c","t","o">>, <<"s","a","n","c","t","a","e">>, <<"s","a","n","c","t","u","s">>,
    <<"f","i","d","e","l","i","s","s","i","m","o">>,
    <<"f","i","d","e","l","i","s","s","i","m","a","e">>,
    <<"i","n","c","o","m","p","a","r","a","b","i","l","i">>,
    <<"i","n","c","o","m","p","a","r","a","b","i","l","i","s","s","i","m","i","s">>,
    <<"c","l","a","r","i","s","s","i","m","i">>, <<"e","g","r","e","g","i","o">>,
    <<"b","e","n","e","m","e","r","e","n","t","i">>, <<"b","e","n","e">>,
    <<"m","e","r","e","n","t","i">>, <<"m","e","r","i","t","o">>, <<"m","e","r","i","t","a","e">> }

\* lines 46-51
particles ==
  { <<"q","u","a","e">>, <<"q","u","i">>, <<"c","u","m">>, <<"q","u","o">>, <<"q","u","a">>,
    <<"s","i","n","e">>, <<"u","l","l","a">>, <<"o","m","n","i","b","u","s">>,
    <<"i","n","t","r","a">>, <<"n","e","q","u","e">>, <<"u","n","q","u","a","m">>, <<"e","t">>,
    <<"o","b">>, <<"d","e">>, <<"e","x">>, <<"i","n">>, <<"a","d">> }

RemovableLabels == {"COGNOMEN", "NOMEN", "RELATIONSHIP", "DEDICATOR_NAME"}

should_remove_word(word, label) ==
  IF label \in RemovableLabels
  THEN normalize_text(word) \in (adjectives \cup particles)
  ELSE FALSE

\* lines 69-84
patterns ==
  <<
    [parts |-> << <<"d","i","s">>, <<"m","a","n","i","b","u","s">>, <<"s","a","c","r","u","m">> >>, min_gap |-> 1, label |-> "DEDICATION_TO_THE_GODS"],
    [parts |-> << <<"d","i","s">>, <<"m","a","n","i","b","u","s">> >>, min_gap |-> 1, label |-> "DEDICATION_TO_THE_GODS"],
    [parts |-> << <<"d">>, <<"m">>, <<"s">> >>, min_gap |-> 0, label |-> "DEDICATION_TO_THE_GODS"],
    [parts |-> << <<"d">>, <<"m">> >>, min_gap |-> 0, label |-> "DEDICATION_TO_THE_GODS"],
    [parts |-> << <<"h","i","c">>, <<"s","i","t","u","s">>, <<"e","s","t">> >>, min_gap |-> 1, label |-> "FUNERARY_FORMULA"],
    [parts |-> << <<"h","i","c">>, <<"s","i","t","a">>, <<"e","s","t">> >>, min_gap |-> 1, label |-> "FUNERARY_FORMULA"],
    [parts |-> << <<"h">>, <<"s">>, <<"e">> >>, min_gap |-> 0, label |-> "FUNERARY_FORMULA"],
    [parts |-> << <<"s","i","t">>, <<"t","i","b","i">>, <<"t","e","r","r","a">>, <<"l","e","v","i","s">> >>, min_gap |-> 1, label |-> "FUNERARY_FORMULA"],
    [parts |-> << <<"s">>, <<"t">>, <<"t">>, <<"l">> >>, min_gap |-> 0, label |-> "FUNERARY_FORMULA"],
    [parts |-> << <<"b","e","n","e">>, <<"m","e","r","e","n","t","i">> >>, min_gap |-> 1, label |-> "BENE_MERENTI"],
    [parts |-> << <<"b","e","n","e">>, <<"m","e","r","i","t","o">> >>, min_gap |-> 1, label |-> "BENE_MERENTI"],
    [parts |-> << <<"b">>, <<"m">> >>, min_gap |-> 0, label |-> "BENE_MERENTI"],
    [parts |-> << <<"i","o","v","i">>, <<"o","p","t","i","m","o">>, <<"m","a","x","i","m","o">> >>, min_gap |-> 1, label |-> "DEDICATION_TO_THE_GODS"],
    [parts |-> << <<"i">>, <<"o">>, <<"m">> >>, min_gap |-> 0, label |-> "DEDICATION_TO_THE_GODS"]
  >>

\* re.finditer(pattern, text_lower): the matches from 1-based position i on,
\* left to right, each search resuming where the last match ended
RECURSIVE FindIter(_, _, _)
FindIter(t, p, i) ==
  IF i > Len(t) THEN << >>
  ELSE LET j == MatchAt(t, i, p.parts, p.min_gap) IN
       IF j = 0 THEN FindIter(t, p, i + 1)
       ELSE << <<i - 1, j - 1, p.label>> >> \o FindIter(t, p, j)

\* lines 87-89: every match of every pattern, in pattern order
RECURSIVE AllFormulaMatches(_, _)
AllFormulaMatches(t, k) ==
  IF k > Len(patterns) THEN << >>
  ELSE FindIter(t, patterns[k], 1) \o AllFormulaMatches(t, k + 1)

Overlaps(start, end, existing) ==
  ~(end <= existing[1] \/ start >= existing[2])

\* lines 95-105: keep a formula unless it overlaps one already kept
RECURSIVE RemoveOverlaps(_, _)
RemoveOverlaps(formulas, non_overlapping) ==
  IF formulas = << >> THEN non_overlapping
  ELSE LET f == Head(formulas) IN
       IF \E x \in 1..Len(non_overlapping) :
            Overlaps(f[1], f[2], non_overlapping[x])
       THEN RemoveOverlaps(Tail(formulas), non_overlapping)
       ELSE RemoveOverlaps(Tail(formulas), Append(non_overlapping, f))

find_and_merge_formulasShorterFirst(t) ==
  LET found == AllFormulaMatches(LowerText(t), 1)
      keyed == [i \in 1..Len(found) |->
                  << <<found[i][1], found[i][2] - found[i][1]>>, found[i] >>]
  IN RemoveOverlaps(SortStable(keyed), << >>)
find_and_merge_formulas(t) ==
  LET found == AllFormulaMatches(LowerText(t), 1)
      keyed == [i \in 1..Len(found) |->
                  << <<found[i][1], -(found[i][2] - found[i][1])>>, found[i] >>]
  IN RemoveOverlaps(SortStable(keyed), << >>)

AgeLabels == {"AGE_PREFIX", "AGE_YEARS", "AGE_MONTHS", "AGE_DAYS"}

\* lines 154-162: an age label inside a land-measurement phrase
ContextWindow == 30
InMeasurementContext(t, start, end) ==
  LET context_start == IF start - ContextWindow > 0 THEN start - ContextWindow ELSE 0
      context_end == IF end + ContextWindow < Len(t) THEN end + ContextWindow ELSE Len(t)
      context == LowerText(Slice(t, context_start, context_end))
  IN \/ Contains(context, <<"p","e","d","e","s">>)
        /\ Contains(context, <<"f","r","o","n","t","e">>)
     \/ Contains(context, <<"l","o","c","u","s">>)
        /\ Contains(context, <<"p","e","d","u","m">>)

\* lines 168-173
age_prefix_words ==
  { <<"v","i","x","i","t">>, <<"v","i","x">>, <<"v","i","v","u","s">>, <<"a","n","n","o","s">>,
    <<"a","n","n","o","r","u","m">>, <<"a","n","n","i","s">>, <<"a","n","n","o">>,
    <<"a","n","n","u","m">>, <<"m","e","n","s","i","b","u","s">>, <<"m","e","n","s","e","s">>,
    <<"d","i","e","b","u","s">>, <<"d","i","e","s">> }

\* lines 178-186
relationship_words ==
  { <<"c","o","n","i","u","g","i">>, <<"c","o","n","i","v","x">>, <<"c","o","n","i","u","x">>,
    <<"u","x","o","r","i">>, <<"u","x","o","r">>, <<"m","a","r","i","t","o">>,
    <<"p","a","t","e","r">>, <<"m","a","t","e","r">>, <<"p","a","t","r","i">>,
    <<"m","a","t","r","i">>, <<"p","a","r","e","n","t","e","s">>,
    <<"l","i","b","e","r","t","u","s">>, <<"l","i","b","e","r","t","a">>,
    <<"l","i","b","e","r","t","i">>, <<"l","i","b","e","r","t","a","e">>,
    <<"l","i","b","e","r","t","o">>, <<"p","a","t","r","o","n","o">>,
    <<"p","a","t","r","o","n","u","s">>, <<"p","a","t","r","o","n","a","e">>,
    <<"f","r","a","t","e","r">>, <<"f","r","a","t","r","i">>, <<"s","o","r","o","r">>,
    <<"f","i","l","i","u","s">>, <<"f","i","l","i","a">>, <<"f","i","l","i","i">>,
    <<"f","i","l","i","a","e">>, <<"f","i","l","i","o">>, <<"c","o","n","s","e","r","v","a","e">> }

\* lines 191-194
funerary_words ==
  { <<"f","e","c","i","t">>, <<"f","e","c","e","r","u","n","t">>, <<"p","o","s","u","i","t">>,
    <<"p","o","s","u","e","r","u","n","t">>, <<"c","u","r","a","v","i","t">>,
    <<"c","u","r","a","v","e","r","u","n","t">>, <<"f","a","c","i","e","n","d","u","m">> }

\* lines 165-196: the label forced by the closed word lists
FixLabel(entity_lower, label) ==
  LET l1 == IF entity_lower \in age_prefix_words THEN "AGE_PREFIX" ELSE label
      l2 == IF entity_lower \in relationship_words THEN "RELATIONSHIP" ELSE l1
  IN IF entity_lower \in funerary_words THEN "FUNERARY_FORMULA" ELSE l2

\* pass 1 without the test of line 130 and the empty-text test of line 134
RECURSIVE FilterPassKeepsMalformed(_, _, _)
FilterPassKeepsMalformed(t, anns, formulas) ==
  IF anns = << >> THEN << >>
  ELSE LET start == Head(anns)[1]
           end == Head(anns)[2]
           label == Head(anns)[3]
           rest == FilterPassKeepsMalformed(t, Tail(anns), formulas)
           entity_text == extract_text(t, start, end)
       IN IF should_remove_word(entity_text, label) THEN rest
          ELSE IF \E f \in 1..Len(formulas) :
                    start >= formulas[f][1] /\ end <= formulas[f][2]
               THEN rest
          ELSE IF label \in AgeLabels /\ InMeasurementContext(t, start, end)
               THEN rest
          ELSE << <<start, end, FixLabel(normalize_text(entity_text), label)>> >>
               \o rest

\* Pass 1 (lines 127-198)
RECURSIVE FilterPass(_, _, _)
FilterPass(t, anns, formulas) ==
  IF anns = << >> THEN << >>
  ELSE LET start == Head(anns)[1]
           end == Head(anns)[2]
           label == Head(anns)[3]
           rest == FilterPass(t, Tail(anns), formulas)
           entity_text == extract_text(t, start, end)
       IN IF start >= end \/ start < 0 \/ end > Len(t) THEN rest
          ELSE IF entity_text = << >> THEN rest
          ELSE IF should_remove_word(entity_text, label) THEN rest
          ELSE IF \E f \in 1..Len(formulas) :
                    start >= formulas[f][1] /\ end <= formulas[f][2]
               THEN rest
          ELSE IF label \in AgeLabels /\ InMeasurementContext(t, start, end)
               THEN rest
          ELSE << <<start, end, FixLabel(normalize_text(entity_text), label)>> >>
               \o rest

\* re.match(r'^[IVX]+$', entity_text)
IsRomanIVX(w) == w # << >> /\ \A k \in 1..Len(w) : w[k] \in {"I", "V", "X"}

\* Pass 3 (lines 205-216), over the list sorted by start
RECURSIVE RelabelPass(_, _, _)
RelabelPass(t, sorted, acc) ==
  IF sorted = << >> THEN acc
  ELSE LET start == Head(sorted)[1]
           end == Head(sorted)[2]
           label == Head(sorted)[3]
           entity_text == extract_text(t, start, end)
           new_label == IF /\ IsRomanIVX(entity_text)
                           /\ acc # << >>
                           /\ acc[Len(acc)][3] = "AGE_PREFIX"
                        THEN "AGE_YEARS" ELSE label
       IN RelabelPass(t, Tail(sorted), Append(acc, <<start, end, new_label>>))

fix_single_annotation(t, anns) ==
  IF anns = << >> THEN << >>
  ELSE LET formulas == find_and_merge_formulas(t)
           filtered == FilterPass(t, anns, formulas) \o formulas
           keyed == [i \in 1..Len(filtered) |-> << <<filtered[i][1]>>, filtered[i] >>]
       IN RelabelPass(t, SortStable(keyed), << >>)

\* the words the input transcriptions are built from
ReconcileVocab ==
  { <<"v","i","x","i","t">>, <<"X">>, <<"p","e","d","e","s">>,
    <<"f","r","o","n","t","e">>, <<"D">>, <<"M">>, <<"e","t">> }

MaxWords == 3

ReconcileTexts ==
  UNION { { JoinWords(ws) : ws \in [1..n -> ReconcileVocab] } : n \in 1..MaxWords }

\* offsets where a word starts / ends (0-based)
WordStarts(t) == { i \in 0..(Len(t) - 1) : i = 0 \/ IsSpace(t[i]) }
WordEnds(t) == { j \in 1..Len(t) : j = Len(t) \/ IsSpace(t[j + 1]) }

InputLabels == {"COGNOMEN", "AGE_YEARS"}

\* input annotations: any run of whole words under any input label, and the
\* malformed spans (reversed, empty, out of range)
ReconcileAnnotations(t) ==
  { <<se[1], se[2], l>> :
      se \in { x \in WordStarts(t) \X WordEnds(t) : x[1] < x[2] },
      l \in InputLabels }
    \cup { <<2, 1, "COGNOMEN">>, <<1, 1, "COGNOMEN">>,
           <<0, Len(t) + 1, "COGNOMEN">>, <<-1, 1, "COGNOMEN">> }

MaxAnnotations == 2

ReconcileInputs(t) ==
  UNION { [1..n -> ReconcileAnnotations(t)] : n \in 0..MaxAnnotations }

InitReconcile ==
  /\ rc_pc = "ready"
  /\ transcription \in ReconcileTexts
  /\ rc_annotations = << >>
  /\ final = << >>
  /\ final_again = << >>
  /\ SpacingIdle
  /\ PatternIdle
  /\ HybridIdle
  /\ MergeIdle
  /\ ConsolidateIdle
  /\ NewIdle

\* fix_single_annotation(transcription, annotations)
Reconcile ==
  /\ rc_pc = "ready"
  /\ \E anns \in ReconcileInputs(transcription) :
       /\ rc_annotations' = anns
       /\ final' = fix_single_annotation(transcription, anns)
  /\ rc_pc' = "once"
  /\ UNCHANGED <<transcription, final_again>>
  /\ UNCHANGED <<sp_vars, pt_vars, hy_vars, mg_vars, cs_vars, nw_vars>>

\* fix_single_annotation applied to its own output
ReconcileAgain ==
  /\ rc_pc = "once"
  /\ final_again' = fix_single_annotation(transcription, final)
  /\ rc_pc' = "twice"
  /\ UNCHANGED <<transcription, rc_annotations, final>>
  /\ UNCHANGED <<sp_vars, pt_vars, hy_vars, mg_vars, cs_vars, nw_vars>>

NextReconcile == Reconcile \/ ReconcileAgain

SpecReconcile == InitReconcile /\ [][NextReconcile]_vars

(***************************************************************************)
(* Claims about fix_single_annotation.                                     *)
(***************************************************************************)
\* C2: fix_single_annotation is idempotent: applied to its own output (same
\* transcription) it returns that output unchanged.
C2_ReconcileIdempotent ==
  rc_pc = "twice" => final_again = final

(***************************************************************************)
(* re.search as the extractors use it.  A pattern is the sequence of nodes *)
(* Python's re parses it to; Run is the backtracking matcher: it tries the *)
(* alternatives in re's priority order (greedy repeats first, branches     *)
(* left to right) and returns the first complete match.                    *)
(***************************************************************************)
\* \s on the characters the model uses
Whitespace == {" "}

\* an unbounded repeat count
MAXREPEAT == -1

LITERAL(c) == [op |-> "literal", ch |-> c]
LITERALS(s) == [k \in 1..Len(s) |-> LITERAL(s[k])]
ANY_OF(cs) == [op |-> "in", chars |-> cs, negate |-> FALSE]
NONE_OF(cs) == [op |-> "in", chars |-> cs, negate |-> TRUE]
MAX_REPEAT(lo, hi, body) ==
  [op |-> "max_repeat", lo |-> lo, hi |-> hi, body |-> body]
SUBPATTERN(g, body) == [op |-> "subpattern", group |-> g, body |-> body]
BRANCH(alts) == [op |-> "branch", alts |-> alts]
AT_BEGINNING == [op |-> "at_beginning"]
AT_BOUNDARY == [op |-> "at_boundary"]
AT_END == [op |-> "at_end"]
LOOKAHEAD(body) == [op |-> "lookahead", body |-> body]
NOT_LOOKBEHIND(width, body) ==
  [op |-> "not_lookbehind", width |-> width, body |-> body]
\* closes capturing group g opened at position from
MARK(g, from) == [op |-> "mark", group |-> g, from |-> from]

\* a match: 1-based start, 1-based exclusive end, and the spans of its groups
NoMatch == [start |-> 0, pos |-> 0, caps |-> << >>]
Matched(m) == m.pos # 0

\* the length of the run of characters of the class cls in t from position i,
\* up to limit characters (MAXREPEAT: any number)
RECURSIVE ClassRun(_, _, _, _)
ClassRun(cls, t, i, limit) ==
  IF limit # 0 /\ i <= Len(t) /\ ((t[i] \in cls.chars) # cls.negate)
  THEN 1 + ClassRun(cls, t, i + 1, IF limit = MAXREPEAT THEN limit ELSE limit - 1)
  ELSE 0

RECURSIVE Run(_, _, _)
RECURSIVE RunBranch(_, _, _, _, _)
RECURSIVE RunClass(_, _, _, _, _)
\* the first match of the node sequence cont at st.pos, NoMatch if none
Run(cont, t, st) ==
  IF Len(cont) = 0 THEN st
  ELSE
    LET node == Head(cont)
        rest == Tail(cont)
        i == st.pos
    IN
    CASE node.op = "literal" ->
           IF i <= Len(t) /\ t[i] = node.ch
           THEN Run(rest, t, [st EXCEPT !.pos = i + 1]) ELSE NoMatch
      [] node.op = "in" ->
           IF i <= Len(t) /\ ((t[i] \in node.chars) # node.negate)
           THEN Run(rest, t, [st EXCEPT !.pos = i + 1]) ELSE NoMatch
      [] node.op = "at_beginning" ->
           IF i = 1 THEN Run(rest, t, st) ELSE NoMatch
      [] node.op = "at_end" ->
           IF i = Len(t) + 1 THEN Run(rest, t, st) ELSE NoMatch
      [] node.op = "at_boundary" ->
           IF WordBoundary(t, i) THEN Run(rest, t, st) ELSE NoMatch
      [] node.op = "subpattern" ->
           Run(node.body \o <<MARK(node.group, i)>> \o rest, t, st)
      [] node.op = "mark" ->
           Run(rest, t,
               [st EXCEPT !.caps = (node.group :> <<node.from, i>>) @@ @])
      [] node.op = "branch" -> RunBranch(node.alts, 1, rest, t, st)
      [] node.op = "max_repeat" /\ Len(node.body) = 1 /\ node.body[1].op = "in" ->
           \* a repeated character class: greedy, giving back one character
           \* at a time
           RunClass(node, rest, t, st, ClassRun(node.body[1], t, i, node.hi))
      [] node.op = "max_repeat" /\ ~(Len(node.body) = 1 /\ node.body[1].op = "in") ->
           LET again == [node EXCEPT
                           !.lo = IF @ > 0 THEN @ - 1 ELSE 0,
                           !.hi = IF @ = MAXREPEAT THEN @ ELSE @ - 1]
               more == IF node.hi = 0 THEN NoMatch
                       ELSE Run(node.body \o <<again>> \o rest, t, st)
           IN IF Matched(more) THEN more
              ELSE IF node.lo = 0 THEN Run(rest, t, st)
              ELSE NoMatch
      [] node.op = "lookahead" ->
           IF Matched(Run(node.body, t, st)) THEN Run(rest, t, st)
           ELSE NoMatch
      [] node.op = "not_lookbehind" ->
           IF /\ i - node.width >= 1
              /\ Matched(Run(node.body, t, [st EXCEPT !.pos = i - node.width]))
           THEN NoMatch ELSE Run(rest, t, st)

\* a repeat of one character class that can take up to k characters at
\* st.pos: the longest count, from k down to node.lo, after which rest matches
RunClass(node, rest, t, st, k) ==
  IF k < node.lo THEN NoMatch
  ELSE LET r == Run(rest, t, [st EXCEPT !.pos = st.pos + k])
       IN IF Matched(r) THEN r ELSE RunClass(node, rest, t, st, k - 1)

\* the alternatives alts[k..] of a branch, in order
RunBranch(alts, k, rest, t, st) ==
  IF k > Len(alts) THEN NoMatch
  ELSE LET r == Run(alts[k] \o rest, t, st)
       IN IF Matched(r) THEN r ELSE RunBranch(alts, k + 1, rest, t, st)

\* what a match of pattern at i needs of t[i] when the pattern opens with a
\* literal, or with \b and then a literal
CanStart(pattern, t, i) ==
  LET lit(k) == (Len(pattern) >= k /\ pattern[k].op = "literal")
                  => (i <= Len(t) /\ t[i] = pattern[k].ch)
  IN IF Len(pattern) >= 1 /\ pattern[1].op = "at_boundary"
     THEN WordBoundary(t, i) /\ lit(2)
     ELSE lit(1)

\* re.search(pattern, t): the match at the leftmost position that has one
re_search(pattern, t) ==
  LET At(i) == Run(pattern, t, [start |-> i, pos |-> i, caps |-> << >>])
      Leftmost(starts) ==
        IF starts = {} THEN NoMatch
        ELSE At(CHOOSE i \in starts : \A j \in starts : i <= j)
  IN Leftmost({i \in 1..(Len(t) + 1) :
                 CanStart(pattern, t, i) /\ Matched(At(i))})

\* match.group(g)
group(t, m, g) == SubSeq(t, m.caps[g][1], m.caps[g][2] - 1)

(***************************************************************************)
(* String operations of the extractors.                                    *)
(***************************************************************************)
Upper(c) ==
  IF c \in Lowercase THEN UpperSeq[CHOOSE i \in 1..26 : LowerSeq[i] = c] ELSE c
\* str.upper()
UpperText(t) == [k \in 1..Len(t) |-> Upper(t[k])]

\* str.replace(old, new), leftmost non-overlapping occurrences, old non-empty
RECURSIVE Taken(_, _, _)
\* the occurrences a left-to-right scan from position from replaces: the
\* first one, then the first that starts after it ends, and so on
Taken(hits, width, from) ==
  LET ahead == {i \in hits : i >= from}
  IN IF ahead = {} THEN {}
     ELSE LET first == CHOOSE i \in ahead : \A j \in ahead : i <= j
          IN {first} \cup Taken(hits, width, first + width)

\* str.replace(old, new), leftmost non-overlapping occurrences, old non-empty;
\* new is one character in every call the extractors make
Replace(t, old, new) ==
  LET hits == {i \in 1..Len(t) : LitAt(t, i, old)}
      taken == IF Len(old) = 1 THEN hits ELSE Taken(hits, Len(old), 1)
      covered(i) == \E h \in taken : h < i /\ i < h + Len(old)
      kept == SelectSeq([i \in 1..Len(t) |-> i], LAMBDA i : ~covered(i))
  IN [k \in 1..Len(kept) |-> IF kept[k] \in taken THEN new[1] ELSE t[kept[k]]]

\* re.sub(r'\s+', ' ', t)
CollapseWhitespace(t) ==
  LET kept == SelectSeq([i \in 1..Len(t) |-> i],
                        LAMBDA i : t[i] \in Whitespace =>
                                     (i = 1 \/ t[i-1] \notin Whitespace))
  IN [k \in 1..Len(kept) |->
        IF t[kept[k]] \in Whitespace THEN " " ELSE t[kept[k]]]

\* str.title(): a letter that follows a letter is lowered, any other raised
Title(t) ==
  [k \in 1..Len(t) |->
     IF k > 1 /\ IsWord(t[k-1]) THEN Lower(t[k]) ELSE Upper(t[k])]

\* str.capitalize()
Capitalize(t) ==
  [k \in 1..Len(t) |-> IF k = 1 THEN Upper(t[k]) ELSE Lower(t[k])]

Digits == <<"0","1","2","3","4","5","6","7","8","9">>
\* str(n) for n >= 0
RECURSIVE Str(_)
Str(n) ==
  IF n < 10 THEN <<Digits[n + 1]>> ELSE Append(Str(n \div 10), Digits[(n % 10) + 1])

(***************************************************************************)
(* _extract_entities_stub (src/latinepi/parser.py).  An entity mapping is  *)
(* a function from slot names to entities; a confidence is held in         *)
(* hundredths (0.95 is 95).                                                *)
(***************************************************************************)
\* {}
NoEntities == [k \in {} |-> k]
\* {'value': v, 'confidence': c}
Entity(v, c) == [value |-> v, confidence |-> c]
\* entities[key] = entity
Put(entities, key, entity) == (key :> entity) @@ entities

\* the view of the text the rules run on
normalized_text(t) ==
  CollapseWhitespace(
    Replace(Replace(Replace(UpperText(t), <<"V">>, <<"U">>),
                    <<"<","B","R",">">>, <<" ">>),
            <<"<","B","R","/",">">>, <<" ">>))

status_pattern ==
  <<AT_BEGINNING, MAX_REPEAT(0, MAXREPEAT, <<NONE_OF(Uppercase)>>), AT_BOUNDARY>> \o LITERALS(<<"D">>) \o <<MAX_REPEAT(0, MAXREPEAT, <<ANY_OF(Whitespace)>>)>> \o LITERALS(<<"M">>) \o <<MAX_REPEAT(0, MAXREPEAT, <<ANY_OF(Whitespace)>>), MAX_REPEAT(0, 1, LITERALS(<<"S">>)), AT_BOUNDARY>>

praenomen_patterns ==
  <<
    [re |-> <<NOT_LOOKBEHIND(2, LITERALS(<<"D">>) \o <<ANY_OF(Whitespace)>>), AT_BOUNDARY, SUBPATTERN(1, <<ANY_OF({"C","G"})>>)>> \o LITERALS(<<".">>) \o <<MAX_REPEAT(1, MAXREPEAT, <<ANY_OF(Whitespace)>>), LOOKAHEAD(<<ANY_OF(Uppercase)>>)>>,
     value |-> <<"G","a","i","u","s">>, confidence |-> 90],
    [re |-> <<NOT_LOOKBEHIND(2, LITERALS(<<"D">>) \o <<ANY_OF(Whitespace)>>), AT_BOUNDARY>> \o LITERALS(<<"L",".">>) \o <<MAX_REPEAT(1, MAXREPEAT, <<ANY_OF(Whitespace)>>), LOOKAHEAD(<<ANY_OF(Uppercase)>>)>>,
     value |-> <<"L","u","c","i","u","s">>, confidence |-> 90],
    [re |-> <<NOT_LOOKBEHIND(2, LITERALS(<<"D">>) \o <<ANY_OF(Whitespace)>>), AT_BOUNDARY>> \o LITERALS(<<"M",".">>) \o <<MAX_REPEAT(1, MAXREPEAT, <<ANY_OF(Whitespace)>>), LOOKAHEAD(<<ANY_OF(Uppercase)>>)>>,
     value |-> <<"M","a","r","c","u","s">>, confidence |-> 90],
    [re |-> <<NOT_LOOKBEHIND(2, LITERALS(<<"D">>) \o <<ANY_OF(Whitespace)>>), AT_BOUNDARY>> \o LITERALS(<<"T",".">>) \o <<MAX_REPEAT(1, MAXREPEAT, <<ANY_OF(Whitespace)>>), LOOKAHEAD(<<ANY_OF(Uppercase)>>)>>,
     value |-> <<"T","i","t","u","s">>, confidence |-> 90],
    [re |-> <<NOT_LOOKBEHIND(2, LITERALS(<<"D">>) \o <<ANY_OF(Whitespace)>>), AT_BOUNDARY>> \o LITERALS(<<"P",".">>) \o <<MAX_REPEAT(1, MAXREPEAT, <<ANY_OF(Whitespace)>>), LOOKAHEAD(<<ANY_OF(Uppercase)>>)>>,
     value |-> <<"P","u","b","l","i","u","s">>, confidence |-> 90],
    [re |-> <<NOT_LOOKBEHIND(2, LITERALS(<<"D">>) \o <<ANY_OF(Whitespace)>>), AT_BOUNDARY>> \o LITERALS(<<"Q",".">>) \o <<MAX_REPEAT(1, MAXREPEAT, <<ANY_OF(Whitespace)>>), LOOKAHEAD(<<ANY_OF(Uppercase)>>)>>,
     value |-> <<"Q","u","i","n","t","u","s">>, confidence |-> 90],
    [re |-> <<NOT_LOOKBEHIND(2, LITERALS(<<"D">>) \o <<ANY_OF(Whitespace)>>), AT_BOUNDARY>> \o LITERALS(<<"S","E","X",".">>) \o <<MAX_REPEAT(1, MAXREPEAT, <<ANY_OF(Whitespace)>>), LOOKAHEAD(<<ANY_OF(Uppercase)>>)>>,
     value |-> <<"S","e","x","t","u","s">>, confidence |-> 90],
    [re |-> <<NOT_LOOKBEHIND(2, LITERALS(<<"D">>) \o <<ANY_OF(Whitespace)>>), AT_BOUNDARY>> \o LITERALS(<<"A",".">>) \o <<MAX_REPEAT(1, MAXREPEAT, <<ANY_OF(Whitespace)>>), LOOKAHEAD(<<ANY_OF(Uppercase)>>)>>,
     value |-> <<"A","u","l","u","s">>, confidence |-> 88],
    [re |-> <<NOT_LOOKBEHIND(2, LITERALS(<<"D">>) \o <<ANY_OF(Whitespace)>>), AT_BOUNDARY>> \o LITERALS(<<"D",".">>) \o <<MAX_REPEAT(1, MAXREPEAT, <<ANY_OF(Whitespace)>>), LOOKAHEAD(<<ANY_OF(Uppercase)>>)>>,
     value |-> <<"D","e","c","i","m","u","s">>, confidence |-> 88],
    [re |-> <<NOT_LOOKBEHIND(2, LITERALS(<<"D">>) \o <<ANY_OF(Whitespace)>>), AT_BOUNDARY>> \o LITERALS(<<"C","N",".">>) \o <<MAX_REPEAT(1, MAXREPEAT, <<ANY_OF(Whitespace)>>), LOOKAHEAD(<<ANY_OF(Uppercase)>>)>>,
     value |-> <<"G","n","a","e","u","s">>, confidence |-> 90],
    [re |-> <<NOT_LOOKBEHIND(2, LITERALS(<<"D">>) \o <<ANY_OF(Whitespace)>>), AT_BOUNDARY, SUBPATTERN(1, <<ANY_OF({"C","G"})>>), MAX_REPEAT(1, MAXREPEAT, <<ANY_OF(Whitespace)>>), LOOKAHEAD(<<ANY_OF(Uppercase), MAX_REPEAT(3, MAXREPEAT, <<ANY_OF(Uppercase)>>)>>)>>,
     value |-> <<"G","a","i","u","s">>, confidence |-> 88],
    [re |-> <<NOT_LOOKBEHIND(2, LITERALS(<<"D">>) \o <<ANY_OF(Whitespace)>>), AT_BOUNDARY>> \o LITERALS(<<"L">>) \o <<MAX_REPEAT(1, MAXREPEAT, <<ANY_OF(Whitespace)>>), LOOKAHEAD(<<ANY_OF(Uppercase), MAX_REPEAT(3, MAXREPEAT, <<ANY_OF(Uppercase)>>)>>)>>,
     value |-> <<"L","u","c","i","u","s">>, confidence |-> 88],
    [re |-> <<NOT_LOOKBEHIND(2, LITERALS(<<"D">>) \o <<ANY_OF(Whitespace)>>), AT_BOUNDARY>> \o LITERALS(<<"M">>) \o <<MAX_REPEAT(1, MAXREPEAT, <<ANY_OF(Whitespace)>>), LOOKAHEAD(<<ANY_OF(Uppercase), MAX_REPEAT(3, MAXREPEAT, <<ANY_OF(Uppercase)>>)>>)>>,
     value |-> <<"M","a","r","c","u","s">>, confidence |-> 88],
    [re |-> <<NOT_LOOKBEHIND(2, LITERALS(<<"D">>) \o <<ANY_OF(Whitespace)>>), AT_BOUNDARY>> \o LITERALS(<<"T">>) \o <<MAX_REPEAT(1, MAXREPEAT, <<ANY_OF(Whitespace)>>), LOOKAHEAD(<<ANY_OF(Uppercase), MAX_REPEAT(3, MAXREPEAT, <<ANY_OF(Uppercase)>>)>>)>>,
     value |-> <<"T","i","t","u","s">>, confidence |-> 88],
    [re |-> <<NOT_LOOKBEHIND(2, LITERALS(<<"D">>) \o <<ANY_OF(Whitespace)>>), AT_BOUNDARY>> \o LITERALS(<<"P">>) \o <<MAX_REPEAT(1, MAXREPEAT, <<ANY_OF(Whitespace)>>), LOOKAHEAD(<<ANY_OF(Uppercase), MAX_REPEAT(3, MAXREPEAT, <<ANY_OF(Uppercase)>>)>>)>>,
     value |-> <<"P","u","b","l","i","u","s">>, confidence |-> 88],
    [re |-> <<AT_BOUNDARY>> \o LITERALS(<<"G","A","I","U","S">>) \o <<MAX_REPEAT(1, MAXREPEAT, <<ANY_OF(Whitespace)>>), LOOKAHEAD(<<ANY_OF(Uppercase), MAX_REPEAT(3, MAXREPEAT, <<ANY_OF(Uppercase)>>)>>)>>,
     value |-> <<"G","a","i","u","s">>, confidence |-> 92],
    [re |-> <<AT_BOUNDARY>> \o LITERALS(<<"L","U","C","I","U","S">>) \o <<MAX_REPEAT(1, MAXREPEAT, <<ANY_OF(Whitespace)>>), LOOKAHEAD(<<ANY_OF(Uppercase), MAX_REPEAT(3, MAXREPEAT, <<ANY_OF(Uppercase)>>)>>)>>,
     value |-> <<"L","u","c","i","u","s">>, confidence |-> 92],
    [re |-> <<AT_BOUNDARY>> \o LITERALS(<<"M","A","R","C","U","S">>) \o <<MAX_REPEAT(1, MAXREPEAT, <<ANY_OF(Whitespace)>>), LOOKAHEAD(<<ANY_OF(Uppercase), MAX_REPEAT(3, MAXREPEAT, <<ANY_OF(Uppercase)>>)>>)>>,
     value |-> <<"M","a","r","c","u","s">>, confidence |-> 92],
    [re |-> <<AT_BOUNDARY>> \o LITERALS(<<"T","I","T","U","S">>) \o <<MAX_REPEAT(1, MAXREPEAT, <<ANY_OF(Whitespace)>>), LOOKAHEAD(<<ANY_OF(Uppercase), MAX_REPEAT(3, MAXREPEAT, <<ANY_OF(Uppercase)>>)>>)>>,
     value |-> <<"T","i","t","u","s">>, confidence |-> 92],
    [re |-> <<AT_BOUNDARY>> \o LITERALS(<<"P","U","B","L","I","U","S">>) \o <<MAX_REPEAT(1, MAXREPEAT, <<ANY_OF(Whitespace)>>), LOOKAHEAD(<<ANY_OF(Uppercase), MAX_REPEAT(3, MAXREPEAT, <<ANY_OF(Uppercase)>>)>>)>>,
     value |-> <<"P","u","b","l","i","u","s">>, confidence |-> 92],
    [re |-> <<AT_BOUNDARY>> \o LITERALS(<<"Q","U","I","N","T","U","S">>) \o <<MAX_REPEAT(1, MAXREPEAT, <<ANY_OF(Whitespace)>>), LOOKAHEAD(<<ANY_OF(Uppercase), MAX_REPEAT(3, MAXREPEAT, <<ANY_OF(Uppercase)>>)>>)>>,
     value |-> <<"Q","u","i","n","t","u","s">>, confidence |-> 92],
    [re |-> <<AT_BOUNDARY>> \o LITERALS(<<"S","E","X","T","U","S">>) \o <<MAX_REPEAT(1, MAXREPEAT, <<ANY_OF(Whitespace)>>), LOOKAHEAD(<<ANY_OF(Uppercase), MAX_REPEAT(3, MAXREPEAT, <<ANY_OF(Uppercase)>>)>>)>>,
     value |-> <<"S","e","x","t","u","s">>, confidence |-> 92],
    [re |-> <<AT_BOUNDARY>> \o LITERALS(<<"A","U","L","U","S">>) \o <<MAX_REPEAT(1, MAXREPEAT, <<ANY_OF(Whitespace)>>), LOOKAHEAD(<<ANY_OF(Uppercase), MAX_REPEAT(3, MAXREPEAT, <<ANY_OF(Uppercase)>>)>>)>>,
     value |-> <<"A","u","l","u","s">>, confidence |-> 90],
    [re |-> <<AT_BOUNDARY>> \o LITERALS(<<"D","E","C","I","M","U","S">>) \o <<MAX_REPEAT(1, MAXREPEAT, <<ANY_OF(Whitespace)>>), LOOKAHEAD(<<ANY_OF(Uppercase), MAX_REPEAT(3, MAXREPEAT, <<ANY_OF(Uppercase)>>)>>)>>,
     value |-> <<"D","e","c","i","m","u","s">>, confidence |-> 90],
    [re |-> <<AT_BOUNDARY>> \o LITERALS(<<"G","N","A","E","U","S">>) \o <<MAX_REPEAT(1, MAXREPEAT, <<ANY_OF(Whitespace)>>), LOOKAHEAD(<<ANY_OF(Uppercase), MAX_REPEAT(3, MAXREPEAT, <<ANY_OF(Uppercase)>>)>>)>>,
     value |-> <<"G","n","a","e","u","s">>, confidence |-> 92]
  >>

nomen_patterns ==
  <<
    [re |-> <<AT_BOUNDARY>> \o LITERALS(<<"A","E","M","I","L","I","A">>) \o <<MAX_REPEAT(0, 1, LITERALS(<<"E">>)), AT_BOUNDARY>>,
     value |-> <<"A","e","m","i","l","i","a">>, confidence |-> 88],
    [re |-> <<AT_BOUNDARY>> \o LITERALS(<<"C","L","A","U","D","I","A">>) \o <<MAX_REPEAT(0, 1, LITERALS(<<"E">>)), AT_BOUNDARY>>,
     value |-> <<"C","l","a","u","d","i","a">>, confidence |-> 88],
    [re |-> <<AT_BOUNDARY>> \o LITERALS(<<"U","A","L","E","R","I","A">>) \o <<MAX_REPEAT(0, 1, LITERALS(<<"E">>)), AT_BOUNDARY>>,
     value |-> <<"V","a","l","e","r","i","a">>, confidence |-> 88],
    [re |-> <<AT_BOUNDARY>> \o LITERALS(<<"U","L","P","I","A">>) \o <<MAX_REPEAT(0, 1, LITERALS(<<"E">>)), AT_BOUNDARY>>,
     value |-> <<"U","l","p","i","a">>, confidence |-> 88],
    [re |-> <<AT_BOUNDARY>> \o LITERALS(<<"A","U","R","E","L","I","A">>) \o <<MAX_REPEAT(0, 1, LITERALS(<<"E">>)), AT_BOUNDARY>>,
     value |-> <<"A","u","r","e","l","i","a">>, confidence |-> 88],
    [re |-> <<AT_BOUNDARY>> \o LITERALS(<<"C","O","R","N","E","L","I","A">>) \o <<MAX_REPEAT(0, 1, LITERALS(<<"E">>)), AT_BOUNDARY>>,
     value |-> <<"C","o","r","n","e","l","i","a">>, confidence |-> 88],
    [re |-> <<AT_BOUNDARY>> \o LITERALS(<<"I","U","L","I","A">>) \o <<MAX_REPEAT(0, 1, LITERALS(<<"E">>)), AT_BOUNDARY>>,
     value |-> <<"I","u","l","i","a">>, confidence |-> 88],
    [re |-> <<AT_BOUNDARY>> \o LITERALS(<<"F","L","A","U","I","A">>) \o <<MAX_REPEAT(0, 1, LITERALS(<<"E">>)), AT_BOUNDARY>>,
     value |-> <<"F","l","a","v","i","a">>, confidence |-> 88],
    [re |-> <<AT_BOUNDARY>> \o LITERALS(<<"F","A","B","I","A">>) \o <<MAX_REPEAT(0, 1, LITERALS(<<"E">>)), AT_BOUNDARY>>,
     value |-> <<"F","a","b","i","a">>, confidence |-> 88],
    [re |-> <<AT_BOUNDARY>> \o LITERALS(<<"D","O","M","I","T","I","A">>) \o <<MAX_REPEAT(0, 1, LITERALS(<<"E">>)), AT_BOUNDARY>>,
     value |-> <<"D","o","m","i","t","i","a">>, confidence |-> 88],
    [re |-> <<AT_BOUNDARY>> \o LITERALS(<<"L","I","C","I","N","I","A">>) \o <<MAX_REPEAT(0, 1, LITERALS(<<"E">>)), AT_BOUNDARY>>,
     value |-> <<"L","i","c","i","n","i","a">>, confidence |-> 88],
    [re |-> <<AT_BOUNDARY>> \o LITERALS(<<"I","U","N","I","A">>) \o <<MAX_REPEAT(0, 1, LITERALS(<<"E">>)), AT_BOUNDARY>>,
     value |-> <<"I","u","n","i","a">>, confidence |-> 88],
    [re |-> <<AT_BOUNDARY>> \o LITERALS(<<"C","A","E","C","I","L","I","A">>) \o <<MAX_REPEAT(0, 1, LITERALS(<<"E">>)), AT_BOUNDARY>>,
     value |-> <<"C","a","e","c","i","l","i","a">>, confidence |-> 88],
    [re |-> <<AT_BOUNDARY>> \o LITERALS(<<"I","U","L","I","U","S">>) \o <<AT_BOUNDARY>>,
     value |-> <<"I","u","l","i","u","s">>, confidence |-> 88],
    [re |-> <<AT_BOUNDARY>> \o LITERALS(<<"F","L","A","U","I","U","S">>) \o <<AT_BOUNDARY>>,
     value |-> <<"F","l","a","v","i","u","s">>, confidence |-> 88],
    [re |-> <<AT_BOUNDARY>> \o LITERALS(<<"A","E","M","I","L","I","U","S">>) \o <<AT_BOUNDARY>>,
     value |-> <<"A","e","m","i","l","i","u","s">>, confidence |-> 88],
    [re |-> <<AT_BOUNDARY>> \o LITERALS(<<"A","N","T","O","N","I","U","S">>) \o <<AT_BOUNDARY>>,
     value |-> <<"A","n","t","o","n","i","u","s">>, confidence |-> 88],
    [re |-> <<AT_BOUNDARY>> \o LITERALS(<<"C","L","A","U","D","I","U","S">>) \o <<AT_BOUNDARY>>,
     value |-> <<"C","l","a","u","d","i","u","s">>, confidence |-> 88],
    [re |-> <<AT_BOUNDARY>> \o LITERALS(<<"U","A","L","E","R","I","U","S">>) \o <<AT_BOUNDARY>>,
     value |-> <<"V","a","l","e","r","i","u","s">>, confidence |-> 88],
    [re |-> <<AT_BOUNDARY>> \o LITERALS(<<"U","L","P","I","U","S">>) \o <<AT_BOUNDARY>>,
     value |-> <<"U","l","p","i","u","s">>, confidence |-> 88],
    [re |-> <<AT_BOUNDARY>> \o LITERALS(<<"A","U","R","E","L","I","U","S">>) \o <<AT_BOUNDARY>>,
     value |-> <<"A","u","r","e","l","i","u","s">>, confidence |-> 88],
    [re |-> <<AT_BOUNDARY>> \o LITERALS(<<"S","E","M","P","R","O","N","I","U","S">>) \o <<AT_BOUNDARY>>,
     value |-> <<"S","e","m","p","r","o","n","i","u","s">>, confidence |-> 88],
    [re |-> <<AT_BOUNDARY>> \o LITERALS(<<"A","E","L","I","U","S">>) \o <<AT_BOUNDARY>>,
     value |-> <<"A","e","l","i","u","s">>, confidence |-> 88],
    [re |-> <<AT_BOUNDARY>> \o LITERALS(<<"C","O","R","N","E","L","I","U","S">>) \o <<AT_BOUNDARY>>,
     value |-> <<"C","o","r","n","e","l","i","u","s">>, confidence |-> 88],
    [re |-> <<AT_BOUNDARY>> \o LITERALS(<<"F","A","B","I","U","S">>) \o <<AT_BOUNDARY>>,
     value |-> <<"F","a","b","i","u","s">>, confidence |-> 88],
    [re |-> <<AT_BOUNDARY>> \o LITERALS(<<"D","O","M","I","T","I","U","S">>) \o <<AT_BOUNDARY>>,
     value |-> <<"D","o","m","i","t","i","u","s">>, confidence |-> 88],
    [re |-> <<AT_BOUNDARY>> \o LITERALS(<<"L","I","C","I","N","I","U","S">>) \o <<AT_BOUNDARY>>,
     value |-> <<"L","i","c","i","n","i","u","s">>, confidence |-> 88],
    [re |-> <<AT_BOUNDARY>> \o LITERALS(<<"I","U","N","I","U","S">>) \o <<AT_BOUNDARY>>,
     value |-> <<"I","u","n","i","u","s">>, confidence |-> 88],
    [re |-> <<AT_BOUNDARY>> \o LITERALS(<<"C","A","E","C","I","L","I","U","S">>) \o <<AT_BOUNDARY>>,
     value |-> <<"C","a","e","c","i","l","i","u","s">>, confidence |-> 88],
    [re |-> <<AT_BOUNDARY>> \o LITERALS(<<"P","O","M","P","E","I","U","S">>) \o <<AT_BOUNDARY>>,
     value |-> <<"P","o","m","p","e","i","u","s">>, confidence |-> 88],
    [re |-> <<AT_BOUNDARY>> \o LITERALS(<<"S","E","R","U","I","L","I","U","S">>) \o <<AT_BOUNDARY>>,
     value |-> <<"S","e","r","v","i","l","i","u","s">>, confidence |-> 88],
    [re |-> <<AT_BOUNDARY>> \o LITERALS(<<"T","E","R","E","H","T","I","U","S">>) \o <<AT_BOUNDARY>>,
     value |-> <<"T","e","r","e","n","t","i","u","s">>, confidence |-> 88]
  >>

cognomen_patterns ==
  <<
    [re |-> <<AT_BOUNDARY>> \o LITERALS(<<"C","A","E","S","A","R">>) \o <<AT_BOUNDARY>>,
     value |-> <<"C","a","e","s","a","r">>, confidence |-> 90],
    [re |-> <<AT_BOUNDARY>> \o LITERALS(<<"A","L","E","X","A","N","D","E","R">>) \o <<AT_BOUNDARY>>,
     value |-> <<"A","l","e","x","a","n","d","e","r">>, confidence |-> 90],
    [re |-> <<AT_BOUNDARY>> \o LITERALS(<<"S","A","T","U","R","N","I","N","U","S">>) \o <<AT_BOUNDARY>>,
     value |-> <<"S","a","t","u","r","n","i","n","u","s">>, confidence |-> 90],
    [re |-> <<AT_BOUNDARY>> \o LITERALS(<<"T","E","R","T","U","L","L","A">>) \o <<MAX_REPEAT(0, 1, LITERALS(<<"E">>)), AT_BOUNDARY>>,
     value |-> <<"T","e","r","t","u","l","l","a">>, confidence |-> 90],
    [re |-> <<AT_BOUNDARY>> \o LITERALS(<<"M","A","X","I","M","A">>) \o <<MAX_REPEAT(0, 1, LITERALS(<<"E">>)), AT_BOUNDARY>>,
     value |-> <<"M","a","x","i","m","a">>, confidence |-> 90],
    [re |-> <<AT_BOUNDARY>> \o LITERALS(<<"M","A","X","I","M","U","S">>) \o <<AT_BOUNDARY>>,
     value |-> <<"M","a","x","i","m","u","s">>, confidence |-> 90],
    [re |-> <<AT_BOUNDARY>> \o LITERALS(<<"R","E","S","T"," ","I","T","U","T","A">>) \o <<MAX_REPEAT(0, 1, LITERALS(<<"E">>)), AT_BOUNDARY>>,
     value |-> <<"R","e","s","t","i","t","u","t","a">>, confidence |-> 90],
    [re |-> <<AT_BOUNDARY>> \o LITERALS(<<"M","A","R","C","E","L","L","A">>) \o <<MAX_REPEAT(0, 1, LITERALS(<<"E">>)), AT_BOUNDARY>>,
     value |-> <<"M","a","r","c","e","l","l","a">>, confidence |-> 90],
    [re |-> <<AT_BOUNDARY>> \o LITERALS(<<"M","A","R","C","E","L","L","U","S">>) \o <<AT_BOUNDARY>>,
     value |-> <<"M","a","r","c","e","l","l","u","s">>, confidence |-> 90],
    [re |-> <<AT_BOUNDARY>> \o LITERALS(<<"R","U","F","U","S">>) \o <<AT_BOUNDARY>>,
     value |-> <<"R","u","f","u","s">>, confidence |-> 90],
    [re |-> <<AT_BOUNDARY>> \o LITERALS(<<"R","U","F","A">>) \o <<MAX_REPEAT(0, 1, LITERALS(<<"E">>)), AT_BOUNDARY>>,
     value |-> <<"R","u","f","a">>, confidence |-> 90],
    [re |-> <<AT_BOUNDARY>> \o LITERALS(<<"S","E","U","E","R","A">>) \o <<MAX_REPEAT(0, 1, LITERALS(<<"E">>)), AT_BOUNDARY>>,
     value |-> <<"S","e","v","e","r","a">>, confidence |-> 90],
    [re |-> <<AT_BOUNDARY>> \o LITERALS(<<"S","E","U","E","R","U","S">>) \o <<AT_BOUNDARY>>,
     value |-> <<"S","e","v","e","r","u","s">>, confidence |-> 90],
    [re |-> <<AT_BOUNDARY>> \o LITERALS(<<"P","R","I","M","U","S">>) \o <<AT_BOUNDARY>>,
     value |-> <<"P","r","i","m","u","s">>, confidence |-> 90],
    [re |-> <<AT_BOUNDARY>> \o LITERALS(<<"P","R","I","M","A">>) \o <<MAX_REPEAT(0, 1, LITERALS(<<"E">>)), AT_BOUNDARY>>,
     value |-> <<"P","r","i","m","a">>, confidence |-> 90],
    [re |-> <<AT_BOUNDARY>> \o LITERALS(<<"S","E","C","U","N","D","U","S">>) \o <<AT_BOUNDARY>>,
     value |-> <<"S","e","c","u","n","d","u","s">>, confidence |-> 90],
    [re |-> <<AT_BOUNDARY>> \o LITERALS(<<"S","E","C","U","N","D","A">>) \o <<MAX_REPEAT(0, 1, LITERALS(<<"E">>)), AT_BOUNDARY>>,
     value |-> <<"S","e","c","u","n","d","a">>, confidence |-> 90],
    [re |-> <<AT_BOUNDARY>> \o LITERALS(<<"T","E","R","T","I","U","S">>) \o <<AT_BOUNDARY>>,
     value |-> <<"T","e","r","t","i","u","s">>, confidence |-> 90],
    [re |-> <<AT_BOUNDARY>> \o LITERALS(<<"T","E","R","T","I","A">>) \o <<MAX_REPEAT(0, 1, LITERALS(<<"E">>)), AT_BOUNDARY>>,
     value |-> <<"T","e","r","t","i","a">>, confidence |-> 90],
    [re |-> <<AT_BOUNDARY>> \o LITERALS(<<"Q","U","A","R","T","U","S">>) \o <<AT_BOUNDARY>>,
     value |-> <<"Q","u","a","r","t","u","s">>, confidence |-> 90],
    [re |-> <<AT_BOUNDARY>> \o LITERALS(<<"Q","U","A","R","T","A">>) \o <<MAX_REPEAT(0, 1, LITERALS(<<"E">>)), AT_BOUNDARY>>,
     value |-> <<"Q","u","a","r","t","a">>, confidence |-> 90],
    [re |-> <<AT_BOUNDARY>> \o LITERALS(<<"Q","U","I","N","T","U","S">>) \o <<AT_BOUNDARY>>,
     value |-> <<"Q","u","i","n","t","u","s">>, confidence |-> 90],
    [re |-> <<AT_BOUNDARY>> \o LITERALS(<<"Q","U","I","N","T","A">>) \o <<MAX_REPEAT(0, 1, LITERALS(<<"E">>)), AT_BOUNDARY>>,
     value |-> <<"Q","u","i","n","t","a">>, confidence |-> 90],
    [re |-> <<AT_BOUNDARY>> \o LITERALS(<<"S","A","B","I","N","A">>) \o <<MAX_REPEAT(0, 1, LITERALS(<<"E">>)), AT_BOUNDARY>>,
     value |-> <<"S","a","b","i","n","a">>, confidence |-> 90],
    [re |-> <<AT_BOUNDARY>> \o LITERALS(<<"S","A","B","I","N","U","S">>) \o <<AT_BOUNDARY>>,
     value |-> <<"S","a","b","i","n","u","s">>, confidence |-> 90],
    [re |-> <<AT_BOUNDARY>> \o LITERALS(<<"T","U","R","P","I","L","I","A">>) \o <<MAX_REPEAT(0, 1, LITERALS(<<"E">>)), AT_BOUNDARY>>,
     value |-> <<"T","u","r","p","i","l","i","a">>, confidence |-> 90],
    [re |-> <<AT_BOUNDARY>> \o LITERALS(<<"U","I","C","T","O","R">>) \o <<AT_BOUNDARY>>,
     value |-> <<"V","i","c","t","o","r">>, confidence |-> 90],
    [re |-> <<AT_BOUNDARY>> \o LITERALS(<<"U","I","C","T","O","R","I","A">>) \o <<MAX_REPEAT(0, 1, LITERALS(<<"E">>)), AT_BOUNDARY>>,
     value |-> <<"V","i","c","t","o","r","i","a">>, confidence |-> 90],
    [re |-> <<AT_BOUNDARY>> \o LITERALS(<<"F","E","L","I","X">>) \o <<AT_BOUNDARY>>,
     value |-> <<"F","e","l","i","x">>, confidence |-> 90],
    [re |-> <<AT_BOUNDARY>> \o LITERALS(<<"F","A","U","S","T","I","N","A">>) \o <<MAX_REPEAT(0, 1, LITERALS(<<"E">>)), AT_BOUNDARY>>,
     value |-> <<"F","a","u","s","t","i","n","a">>, confidence |-> 90],
    [re |-> <<AT_BOUNDARY>> \o LITERALS(<<"F","A","U","S","T","U","S">>) \o <<AT_BOUNDARY>>,
     value |-> <<"F","a","u","s","t","u","s">>, confidence |-> 90],
    [re |-> <<AT_BOUNDARY>> \o LITERALS(<<"C","L","E","M","E","N","S">>) \o <<AT_BOUNDARY>>,
     value |-> <<"C","l","e","m","e","n","s">>, confidence |-> 90],
    [re |-> <<AT_BOUNDARY>> \o LITERALS(<<"C","R","I","S","P","U","S">>) \o <<AT_BOUNDARY>>,
     value |-> <<"C","r","i","s","p","u","s">>, confidence |-> 90],
    [re |-> <<AT_BOUNDARY>> \o LITERALS(<<"C","R","I","S","P","I","N","A">>) \o <<MAX_REPEAT(0, 1, LITERALS(<<"E">>)), AT_BOUNDARY>>,
     value |-> <<"C","r","i","s","p","i","n","a">>, confidence |-> 90],
    [re |-> <<AT_BOUNDARY>> \o LITERALS(<<"F","R","O","N","T","O">>) \o <<AT_BOUNDARY>>,
     value |-> <<"F","r","o","n","t","o">>, confidence |-> 90],
    [re |-> <<AT_BOUNDARY>> \o LITERALS(<<"G","A","L","L","U","S">>) \o <<AT_BOUNDARY>>,
     value |-> <<"G","a","l","l","u","s">>, confidence |-> 90],
    [re |-> <<AT_BOUNDARY>> \o LITERALS(<<"L","O","N","G","U","S">>) \o <<AT_BOUNDARY>>,
     value |-> <<"L","o","n","g","u","s">>, confidence |-> 90],
    [re |-> <<AT_BOUNDARY>> \o LITERALS(<<"L","O","N","G","I","N","A">>) \o <<MAX_REPEAT(0, 1, LITERALS(<<"E">>)), AT_BOUNDARY>>,
     value |-> <<"L","o","n","g","i","n","a">>, confidence |-> 90],
    [re |-> <<AT_BOUNDARY>> \o LITERALS(<<"N","I","G","E","R">>) \o <<AT_BOUNDARY>>,
     value |-> <<"N","i","g","e","r">>, confidence |-> 90],
    [re |-> <<AT_BOUNDARY>> \o LITERALS(<<"P","A","U","L","U","S">>) \o <<AT_BOUNDARY>>,
     value |-> <<"P","a","u","l","u","s">>, confidence |-> 90],
    [re |-> <<AT_BOUNDARY>> \o LITERALS(<<"P","A","U","L","A">>) \o <<MAX_REPEAT(0, 1, LITERALS(<<"E">>)), AT_BOUNDARY>>,
     value |-> <<"P","a","u","l","a">>, confidence |-> 90],
    [re |-> <<AT_BOUNDARY>> \o LITERALS(<<"P","R","I","S","C","U","S">>) \o <<AT_BOUNDARY>>,
     value |-> <<"P","r","i","s","c","u","s">>, confidence |-> 90],
    [re |-> <<AT_BOUNDARY>> \o LITERALS(<<"P","R","I","S","C","A">>) \o <<MAX_REPEAT(0, 1, LITERALS(<<"E">>)), AT_BOUNDARY>>,
     value |-> <<"P","r","i","s","c","a">>, confidence |-> 90],
    [re |-> <<AT_BOUNDARY>> \o LITERALS(<<"R","E","G","I","N","A">>) \o <<MAX_REPEAT(0, 1, LITERALS(<<"E">>)), AT_BOUNDARY>>,
     value |-> <<"R","e","g","i","n","a">>, confidence |-> 90],
    [re |-> <<AT_BOUNDARY>> \o LITERALS(<<"R","E","G","I","N","O">>) \o <<AT_BOUNDARY>>,
     value |-> <<"R","e","g","i","n","u","s">>, confidence |-> 90]
  >>

years_pattern ==
  <<BRANCH(<<LITERALS(<<"U","I","X">>), LITERALS(<<"A","N">>)>>), MAX_REPEAT(0, 1, LITERALS(<<"(">>) \o <<MAX_REPEAT(0, MAXREPEAT, <<ANY_OF(Uppercase)>>)>> \o LITERALS(<<")">>)), MAX_REPEAT(0, MAXREPEAT, <<ANY_OF(Whitespace)>>), MAX_REPEAT(0, 1, LITERALS(<<"(">>) \o <<MAX_REPEAT(0, MAXREPEAT, <<ANY_OF(Uppercase)>>)>> \o LITERALS(<<")">>)), MAX_REPEAT(0, MAXREPEAT, <<ANY_OF(Whitespace)>>), SUBPATTERN(1, <<MAX_REPEAT(1, MAXREPEAT, <<ANY_OF({"I","U","V","X","L","C"})>>)>>), AT_BOUNDARY>>

military_pattern ==
  <<AT_BOUNDARY, SUBPATTERN(1, <<BRANCH(<<LITERALS(<<"M","I","L">>) \o <<MAX_REPEAT(0, 1, LITERALS(<<"E","S">>))>>, LITERALS(<<"C","E","N","T","U","R","I","O">>), LITERALS(<<"L","E","G">>) \o <<MAX_REPEAT(0, 1, LITERALS(<<"I","O","N","I","S">>))>> >>)>>), AT_BOUNDARY>>

legion_pattern ==
  LITERALS(<<"L","E","G">>) \o <<MAX_REPEAT(0, 1, LITERALS(<<"(">>) \o <<MAX_REPEAT(0, MAXREPEAT, <<ANY_OF(Uppercase)>>)>> \o LITERALS(<<")">>)), MAX_REPEAT(1, MAXREPEAT, <<ANY_OF(Whitespace)>>), SUBPATTERN(1, <<MAX_REPEAT(1, MAXREPEAT, <<ANY_OF({"I","U","V","X","L","C"})>>)>>), MAX_REPEAT(1, MAXREPEAT, <<ANY_OF(Whitespace)>>)>> \o LITERALS(<<"A","U","G">>)

relationship_patterns ==
  <<
    [re |-> <<AT_BOUNDARY>> \o LITERALS(<<"P","A","T","R","I">>) \o <<AT_BOUNDARY>>,
     value |-> <<"f","a","t","h","e","r">>, confidence |-> 90],
    [re |-> <<AT_BOUNDARY>> \o LITERALS(<<"M","A","T","R","I">>) \o <<AT_BOUNDARY>>,
     value |-> <<"m","o","t","h","e","r">>, confidence |-> 90],
    [re |-> <<AT_BOUNDARY>> \o LITERALS(<<"F","I","L","I","A">>) \o <<MAX_REPEAT(0, 1, LITERALS(<<"E">>)), AT_BOUNDARY>>,
     value |-> <<"d","a","u","g","h","t","e","r">>, confidence |-> 90],
    [re |-> <<AT_BOUNDARY>> \o LITERALS(<<"F","I","L","I","O">>) \o <<AT_BOUNDARY>>,
     value |-> <<"s","o","n">>, confidence |-> 90],
    [re |-> <<AT_BOUNDARY>> \o LITERALS(<<"C","O","N","I","U","G","I">>) \o <<AT_BOUNDARY>>,
     value |-> <<"w","i","f","e">>, confidence |-> 90],
    [re |-> <<AT_BOUNDARY>> \o LITERALS(<<"H","E","R","E","S">>) \o <<AT_BOUNDARY>>,
     value |-> <<"h","e","i","r">>, confidence |-> 88]
  >>

fecit_pattern ==
  <<SUBPATTERN(1, <<ANY_OF(Uppercase), MAX_REPEAT(1, MAXREPEAT, <<ANY_OF(Uppercase)>>), MAX_REPEAT(0, 1, <<MAX_REPEAT(1, MAXREPEAT, <<ANY_OF(Whitespace)>>), ANY_OF(Uppercase), MAX_REPEAT(1, MAXREPEAT, <<ANY_OF(Uppercase)>>)>>)>>), MAX_REPEAT(1, MAXREPEAT, <<ANY_OF(Whitespace)>>)>> \o LITERALS(<<"F","E","C","I","T">>)

location_patterns ==
  <<
    [re |-> <<AT_BOUNDARY>> \o LITERALS(<<"R","O","M","A">>) \o <<MAX_REPEAT(0, 1, LITERALS(<<"E">>)), AT_BOUNDARY>>,
     value |-> <<"R","o","m">>, confidence |-> 85],
    [re |-> <<AT_BOUNDARY>> \o LITERALS(<<"O","S","T","I","A">>) \o <<MAX_REPEAT(0, 1, LITERALS(<<"E">>)), AT_BOUNDARY>>,
     value |-> <<"O","s","t","i","a">>, confidence |-> 85],
    [re |-> <<AT_BOUNDARY>> \o LITERALS(<<"P","O","M","P","E","I","I">>) \o <<AT_BOUNDARY>>,
     value |-> <<"P","o","m","p","e","i","i">>, confidence |-> 85],
    [re |-> <<AT_BOUNDARY>> \o LITERALS(<<"N","E","A","P","O","L","I">>) \o <<AT_BOUNDARY>>,
     value |-> <<"N","e","a","p","o","l","i","s">>, confidence |-> 85],
    [re |-> <<AT_BOUNDARY>> \o LITERALS(<<"A","Q","U","I","N","C","I">>) \o <<AT_BOUNDARY>>,
     value |-> <<"A","q","u","i","n","c","u","m">>, confidence |-> 85],
    [re |-> <<AT_BOUNDARY>> \o LITERALS(<<"C","A","R","T"," ","H","A","G","I","N","E">>) \o <<AT_BOUNDARY>>,
     value |-> <<"C","a","r","t","h","a","g","e">>, confidence |-> 85],
    [re |-> <<AT_BOUNDARY>> \o LITERALS(<<"L","U","G","D","U","N","I">>) \o <<AT_BOUNDARY>>,
     value |-> <<"L","u","g","d","u","n","u","m">>, confidence |-> 85],
    [re |-> <<AT_BOUNDARY>> \o LITERALS(<<"M","E","D","I","O","L","A","N","I">>) \o <<AT_BOUNDARY>>,
     value |-> <<"M","e","d","i","o","l","a","n","u","m">>, confidence |-> 85],
    [re |-> <<AT_BOUNDARY>> \o LITERALS(<<"R","A","U","E","N","N","A">>) \o <<MAX_REPEAT(0, 1, LITERALS(<<"E">>)), AT_BOUNDARY>>,
     value |-> <<"R","a","v","e","n","n","a">>, confidence |-> 85],
    [re |-> <<AT_BOUNDARY>> \o LITERALS(<<"T","A","R","R","A","C","O">>) \o <<AT_BOUNDARY>>,
     value |-> <<"T","a","r","r","a","c","o">>, confidence |-> 85]
  >>

tribe_patterns ==
  <<
    [re |-> <<AT_BOUNDARY>> \o LITERALS(<<"F","A","B",".">>) \o <<AT_BOUNDARY>>,
     value |-> <<"F","a","b","i","a">>, confidence |-> 85],
    [re |-> <<AT_BOUNDARY>> \o LITERALS(<<"F","A","B","I","A">>) \o <<AT_BOUNDARY>>,
     value |-> <<"F","a","b","i","a">>, confidence |-> 88],
    [re |-> <<AT_BOUNDARY>> \o LITERALS(<<"C","O","R","N",".">>) \o <<AT_BOUNDARY>>,
     value |-> <<"C","o","r","n","e","l","i","a">>, confidence |-> 85],
    [re |-> <<AT_BOUNDARY>> \o LITERALS(<<"C","O","R","N","E","L","I","A">>) \o <<AT_BOUNDARY>>,
     value |-> <<"C","o","r","n","e","l","i","a">>, confidence |-> 88],
    [re |-> <<AT_BOUNDARY>> \o LITERALS(<<"P","A","L",".">>) \o <<AT_BOUNDARY>>,
     value |-> <<"P","a","l","a","t","i","n","a">>, confidence |-> 85],
    [re |-> <<AT_BOUNDARY>> \o LITERALS(<<"P","A","L","A","T","I","N","A">>) \o <<AT_BOUNDARY>>,
     value |-> <<"P","a","l","a","t","i","n","a">>, confidence |-> 88],
    [re |-> <<AT_BOUNDARY>> \o LITERALS(<<"Q","U","I","R",".">>) \o <<AT_BOUNDARY>>,
     value |-> <<"Q","u","i","r","i","n","a">>, confidence |-> 85],
    [re |-> <<AT_BOUNDARY>> \o LITERALS(<<"Q","U","I","R","I","N","A">>) \o <<AT_BOUNDARY>>,
     value |-> <<"Q","u","i","r","i","n","a">>, confidence |-> 88],
    [re |-> <<AT_BOUNDARY>> \o LITERALS(<<"T","R","O",".">>) \o <<AT_BOUNDARY>>,
     value |-> <<"T","r","o","m","e","n","t","i","n","a">>, confidence |-> 85],
    [re |-> <<AT_BOUNDARY>> \o LITERALS(<<"T","R","O","M","E","N","T","I","N","A">>) \o <<AT_BOUNDARY>>,
     value |-> <<"T","r","o","m","e","n","t","i","n","a">>, confidence |-> 88],
    [re |-> <<AT_BOUNDARY>> \o LITERALS(<<"C","O","L","L",".">>) \o <<AT_BOUNDARY>>,
     value |-> <<"C","o","l","l","i","n","a">>, confidence |-> 85],
    [re |-> <<AT_BOUNDARY>> \o LITERALS(<<"C","O","L","L","I","N","A">>) \o <<AT_BOUNDARY>>,
     value |-> <<"C","o","l","l","i","n","a">>, confidence |-> 88],
    [re |-> <<AT_BOUNDARY>> \o LITERALS(<<"A","N","I",".">>) \o <<AT_BOUNDARY>>,
     value |-> <<"A","n","i","e","n","s","i","s">>, confidence |-> 85],
    [re |-> <<AT_BOUNDARY>> \o LITERALS(<<"A","N","I","E","N","S","I","S">>) \o <<AT_BOUNDARY>>,
     value |-> <<"A","n","i","e","n","s","i","s">>, confidence |-> 88],
    [re |-> <<AT_BOUNDARY>> \o LITERALS(<<"C","L","U","S","T",".">>) \o <<AT_BOUNDARY>>,
     value |-> <<"C","l","u","s","t","u","m","i","n","a">>, confidence |-> 85],
    [re |-> <<AT_BOUNDARY>> \o LITERALS(<<"C","L","U","S","T","U","M","I","N","A">>) \o <<AT_BOUNDARY>>,
     value |-> <<"C","l","u","s","t","u","m","i","n","a">>, confidence |-> 88]
  >>

\* r'\bFECIT\b'
fecit_word == <<AT_BOUNDARY>> \o LITERALS(<<"F","E","C","I","T">>) \o <<AT_BOUNDARY>>

roman_values ==
  ("I" :> 1) @@ ("V" :> 5) @@ ("U" :> 5) @@ ("X" :> 10) @@ ("L" :> 50)
  @@ ("C" :> 100) @@ ("D" :> 500) @@ ("M" :> 1000)

\* the loop of _roman_to_arabic over reversed(roman): characters k..1
RECURSIVE RomanLoop(_, _, _, _)
RomanLoop(roman, k, total, prev_value) ==
  IF k = 0 THEN total
  ELSE LET value == IF roman[k] \in DOMAIN roman_values
                    THEN roman_values[roman[k]] ELSE 0
       IN RomanLoop(roman, k - 1,
                    IF value < prev_value THEN total - value ELSE total + value,
                    value)

RECURSIVE RomanSum(_, _)
RomanSum(roman, k) ==
  IF k = 0 THEN 0
  ELSE RomanSum(roman, k - 1)
       + (IF roman[k] \in DOMAIN roman_values THEN roman_values[roman[k]]
          ELSE 0)
_roman_to_arabicAdditive(roman) == RomanSum(UpperText(roman), Len(roman))
_roman_to_arabic(roman) == RomanLoop(UpperText(roman), Len(roman), 0, 0)

FirstRuleLastWins(rules, key, entities, nt) ==
  LET Rule(rule) == Put(entities, key, Entity(rule.value, rule.confidence))
      Last(hits) ==
        IF hits = {} THEN entities
        ELSE Rule(rules[CHOOSE k \in hits : \A j \in hits : k >= j])
  IN Last({k \in 1..Len(rules) : Matched(re_search(rules[k].re, nt))})
\* for pattern, name, confidence in rules: the first rule that matches sets
\* the slot key (if it is not yet set) and ends the loop
FirstRule(rules, key, entities, nt) ==
  LET Rule(rule) == Put(entities, key, Entity(rule.value, rule.confidence))
      First(hits) ==
        IF hits = {} \/ key \in DOMAIN entities THEN entities
        ELSE Rule(rules[CHOOSE k \in hits : \A j \in hits : k <= j])
  IN First({k \in 1..Len(rules) : Matched(re_search(rules[k].re, nt))})

\* 1. status marker
status_match(entities, nt) ==
  IF Matched(re_search(status_pattern, nt))
  THEN Put(entities, "status",
           Entity(<<"d","i","s"," ","m","a","n","i","b","u","s">>, 95))
  ELSE entities

\* 5. years lived
years_match(entities, nt) ==
  LET m == re_search(years_pattern, nt) IN
  IF ~Matched(m) THEN entities
  ELSE LET arabic == _roman_to_arabic(group(nt, m, 1)) IN
       IF 1 <= arabic /\ arabic <= 150
       THEN Put(entities, "years_lived", Entity(Str(arabic), 85))
       ELSE entities

\* 6. military service
military_matches(entities, nt) ==
  IF ~Matched(re_search(military_pattern, nt)) THEN entities
  ELSE LET legion_match == re_search(legion_pattern, nt) IN
       IF Matched(legion_match)
       THEN LET legion_num == Replace(group(nt, legion_match, 1), <<"U">>, <<"V">>)
            IN Put(entities, "military_service",
                   Entity(<<"M","i","l","e","s",","," ","L","e","g","i","o"," ">>
                          \o legion_num
                          \o <<" ","A","u","g","u","s","t","a">>, 82))
       ELSE Put(entities, "military_service",
                Entity(<<"M","i","l","e","s">>, 75))

\* 8. dedicator
fecit_match(entities, nt) ==
  IF ~Matched(re_search(fecit_word, nt)) THEN entities
  ELSE LET m == re_search(fecit_pattern, nt) IN
       IF ~Matched(m) THEN entities
       ELSE LET dedicator_name ==
                  Replace(Title(Replace(group(nt, m, 1), <<"U">>, <<"u">>)),
                          <<"u">>, <<"u">>)
            IN Put(entities, "dedicator", Entity(dedicator_name, 75))

\* the ten categories in the order the function runs them
CategoryEntities(t) ==
  LET nt == normalized_text(t)
      e1 == status_match(NoEntities, nt)
      e2 == FirstRule(praenomen_patterns, "praenomen", e1, nt)
      e3 == FirstRule(nomen_patterns, "nomen", e2, nt)
      e4 == FirstRule(cognomen_patterns, "cognomen", e3, nt)
      e5 == years_match(e4, nt)
      e6 == military_matches(e5, nt)
      e7 == FirstRule(relationship_patterns, "relationships", e6, nt)
      e8 == fecit_match(e7, nt)
      e9 == FirstRule(location_patterns, "location", e8, nt)
  IN FirstRule(tribe_patterns, "tribe", e9, nt)

\* the fallback entity of a text in which no category matched
FallbackNever(t, entities) == entities
Fallback(t, entities) ==
  IF DOMAIN entities = {}
  THEN Put(entities, "text", Entity(Slice(t, 0, 50), 50))
  ELSE entities

_extract_entities_stub(t) == Fallback(t, CategoryEntities(t))

PatternVocab ==
  {
    <<"D"," ","M">>,
    <<"M","."," ","I","u","l","i","u","s">>,
    <<"C","A","E","S","A","R">>,
    <<"v","i","x"," ","a","n"," ","X","X">>,
    <<"a","n"," ","C","C","C">>,
    <<"M","I","L">>,
    <<"l","e","g"," ","V","I","I","I"," ","A","u","g">>,
    <<"P","A","T","R","I">>,
    <<"P","a","u","l","u","s"," ","F","E","C","I","T">>,
    <<"R","O","M","A","E">>,
    <<"F","A","B","."," ","x">>,
    <<"P","A","L","A","T","I","N","A">>,
    <<"L","."," ","I","U","L","I","A","E"," ","F","I","L","I","O"," ","O","S","T","I","A","E">>,
    <<"x","y","z">>,
    <<"<","b","r",">">>,
    <<"q","q","q","q","q","q","q","q","q","q","q","q","q","q","q","q","q","q","q","q","q","q","q","q","q","q","q","q","q","q">>
  }


(***************************************************************************)
(* extract_with_grammar_templates (src/latinepi/grammar_patterns.py)       *)
(***************************************************************************)
\* the feminine genitive templates, one per relationship word
relationship_words_fem ==
  <<
    [re |-> <<AT_BOUNDARY, SUBPATTERN(1, <<MAX_REPEAT(1, MAXREPEAT, <<ANY_OF(Uppercase)>>)>> \o LITERALS(<<"A","E">>)), MAX_REPEAT(1, MAXREPEAT, <<ANY_OF(Whitespace)>>), SUBPATTERN(2, <<MAX_REPEAT(1, MAXREPEAT, <<ANY_OF(Uppercase)>>)>> \o LITERALS(<<"A","E">>)), MAX_REPEAT(1, MAXREPEAT, <<ANY_OF(Whitespace)>>)>> \o LITERALS(<<"F","I","L","I","A","E">>) \o <<AT_BOUNDARY>>,
     value |-> <<"d","a","u","g","h","t","e","r">>, confidence |-> 90],
    [re |-> <<AT_BOUNDARY, SUBPATTERN(1, <<MAX_REPEAT(1, MAXREPEAT, <<ANY_OF(Uppercase)>>)>> \o LITERALS(<<"A","E">>)), MAX_REPEAT(1, MAXREPEAT, <<ANY_OF(Whitespace)>>), SUBPATTERN(2, <<MAX_REPEAT(1, MAXREPEAT, <<ANY_OF(Uppercase)>>)>> \o LITERALS(<<"A","E">>)), MAX_REPEAT(1, MAXREPEAT, <<ANY_OF(Whitespace)>>)>> \o LITERALS(<<"M","A","T","R","I">>) \o <<AT_BOUNDARY>>,
     value |-> <<"m","o","t","h","e","r">>, confidence |-> 90],
    [re |-> <<AT_BOUNDARY, SUBPATTERN(1, <<MAX_REPEAT(1, MAXREPEAT, <<ANY_OF(Uppercase)>>)>> \o LITERALS(<<"A","E">>)), MAX_REPEAT(1, MAXREPEAT, <<ANY_OF(Whitespace)>>), SUBPATTERN(2, <<MAX_REPEAT(1, MAXREPEAT, <<ANY_OF(Uppercase)>>)>> \o LITERALS(<<"A","E">>)), MAX_REPEAT(1, MAXREPEAT, <<ANY_OF(Whitespace)>>)>> \o LITERALS(<<"C","O","N","I","U","G","I">>) \o <<AT_BOUNDARY>>,
     value |-> <<"w","i","f","e">>, confidence |-> 88],
    [re |-> <<AT_BOUNDARY, SUBPATTERN(1, <<MAX_REPEAT(1, MAXREPEAT, <<ANY_OF(Uppercase)>>)>> \o LITERALS(<<"A","E">>)), MAX_REPEAT(1, MAXREPEAT, <<ANY_OF(Whitespace)>>), SUBPATTERN(2, <<MAX_REPEAT(1, MAXREPEAT, <<ANY_OF(Uppercase)>>)>> \o LITERALS(<<"A","E">>)), MAX_REPEAT(1, MAXREPEAT, <<ANY_OF(Whitespace)>>)>> \o LITERALS(<<"S","O","R","O","R","I">>) \o <<AT_BOUNDARY>>,
     value |-> <<"s","i","s","t","e","r">>, confidence |-> 88],
    [re |-> <<AT_BOUNDARY, SUBPATTERN(1, <<MAX_REPEAT(1, MAXREPEAT, <<ANY_OF(Uppercase)>>)>> \o LITERALS(<<"A","E">>)), MAX_REPEAT(1, MAXREPEAT, <<ANY_OF(Whitespace)>>), SUBPATTERN(2, <<MAX_REPEAT(1, MAXREPEAT, <<ANY_OF(Uppercase)>>)>> \o LITERALS(<<"A","E">>)), MAX_REPEAT(1, MAXREPEAT, <<ANY_OF(Whitespace)>>)>> \o LITERALS(<<"A","U","I","A","E">>) \o <<AT_BOUNDARY>>,
     value |-> <<"g","r","a","n","d","m","o","t","h","e","r">>, confidence |-> 85],
    [re |-> <<AT_BOUNDARY, SUBPATTERN(1, <<MAX_REPEAT(1, MAXREPEAT, <<ANY_OF(Uppercase)>>)>> \o LITERALS(<<"A","E">>)), MAX_REPEAT(1, MAXREPEAT, <<ANY_OF(Whitespace)>>), SUBPATTERN(2, <<MAX_REPEAT(1, MAXREPEAT, <<ANY_OF(Uppercase)>>)>> \o LITERALS(<<"A","E">>)), MAX_REPEAT(1, MAXREPEAT, <<ANY_OF(Whitespace)>>)>> \o LITERALS(<<"N","E","P","O","T","I">>) \o <<AT_BOUNDARY>>,
     value |-> <<"g","r","a","n","d","d","a","u","g","h","t","e","r">>, confidence |-> 85]
  >>

\* the masculine genitive templates
relationship_words_masc ==
  <<
    [re |-> <<AT_BOUNDARY, SUBPATTERN(1, <<MAX_REPEAT(1, MAXREPEAT, <<ANY_OF(Uppercase)>>)>> \o LITERALS(<<"I">>)), MAX_REPEAT(1, MAXREPEAT, <<ANY_OF(Whitespace)>>), SUBPATTERN(2, <<MAX_REPEAT(1, MAXREPEAT, <<ANY_OF(Uppercase)>>)>> \o LITERALS(<<"I">>)), MAX_REPEAT(1, MAXREPEAT, <<ANY_OF(Whitespace)>>)>> \o LITERALS(<<"P","A","T","R","I">>) \o <<AT_BOUNDARY>>,
     value |-> <<"f","a","t","h","e","r">>, confidence |-> 90],
    [re |-> <<AT_BOUNDARY, SUBPATTERN(1, <<MAX_REPEAT(1, MAXREPEAT, <<ANY_OF(Uppercase)>>)>> \o LITERALS(<<"I">>)), MAX_REPEAT(1, MAXREPEAT, <<ANY_OF(Whitespace)>>), SUBPATTERN(2, <<MAX_REPEAT(1, MAXREPEAT, <<ANY_OF(Uppercase)>>)>> \o LITERALS(<<"I">>)), MAX_REPEAT(1, MAXREPEAT, <<ANY_OF(Whitespace)>>)>> \o LITERALS(<<"F","I","L","I","O">>) \o <<AT_BOUNDARY>>,
     value |-> <<"s","o","n">>, confidence |-> 90],
    [re |-> <<AT_BOUNDARY, SUBPATTERN(1, <<MAX_REPEAT(1, MAXREPEAT, <<ANY_OF(Uppercase)>>)>> \o LITERALS(<<"I">>)), MAX_REPEAT(1, MAXREPEAT, <<ANY_OF(Whitespace)>>), SUBPATTERN(2, <<MAX_REPEAT(1, MAXREPEAT, <<ANY_OF(Uppercase)>>)>> \o LITERALS(<<"I">>)), MAX_REPEAT(1, MAXREPEAT, <<ANY_OF(Whitespace)>>)>> \o LITERALS(<<"F","R","A","T","R","I">>) \o <<AT_BOUNDARY>>,
     value |-> <<"b","r","o","t","h","e","r">>, confidence |-> 88],
    [re |-> <<AT_BOUNDARY, SUBPATTERN(1, <<MAX_REPEAT(1, MAXREPEAT, <<ANY_OF(Uppercase)>>)>> \o LITERALS(<<"I">>)), MAX_REPEAT(1, MAXREPEAT, <<ANY_OF(Whitespace)>>), SUBPATTERN(2, <<MAX_REPEAT(1, MAXREPEAT, <<ANY_OF(Uppercase)>>)>> \o LITERALS(<<"I">>)), MAX_REPEAT(1, MAXREPEAT, <<ANY_OF(Whitespace)>>)>> \o LITERALS(<<"A","U","O">>) \o <<AT_BOUNDARY>>,
     value |-> <<"g","r","a","n","d","f","a","t","h","e","r">>, confidence |-> 85],
    [re |-> <<AT_BOUNDARY, SUBPATTERN(1, <<MAX_REPEAT(1, MAXREPEAT, <<ANY_OF(Uppercase)>>)>> \o LITERALS(<<"I">>)), MAX_REPEAT(1, MAXREPEAT, <<ANY_OF(Whitespace)>>), SUBPATTERN(2, <<MAX_REPEAT(1, MAXREPEAT, <<ANY_OF(Uppercase)>>)>> \o LITERALS(<<"I">>)), MAX_REPEAT(1, MAXREPEAT, <<ANY_OF(Whitespace)>>)>> \o LITERALS(<<"N","E","P","O","T","I">>) \o <<AT_BOUNDARY>>,
     value |-> <<"g","r","a","n","d","s","o","n">>, confidence |-> 85]
  >>

\* the three dedicator templates of each dedication verb
dedication_verbs ==
  <<
    [with_relationship |-> <<AT_BOUNDARY, SUBPATTERN(1, <<MAX_REPEAT(1, MAXREPEAT, <<ANY_OF(Uppercase)>>)>> \o LITERALS(<<"U","S">>)), MAX_REPEAT(1, MAXREPEAT, <<ANY_OF(Whitespace)>>), SUBPATTERN(2, <<MAX_REPEAT(1, MAXREPEAT, <<ANY_OF(Uppercase)>>)>> \o LITERALS(<<"U","S">>)), MAX_REPEAT(1, MAXREPEAT, <<ANY_OF(Whitespace)>>), SUBPATTERN(3, <<BRANCH(<<LITERALS(<<"P","A","T","E","R">>), LITERALS(<<"M","A","T","E","R">>), LITERALS(<<"F","I","L","I","U","S">>), LITERALS(<<"F","I","L","I","A">>), LITERALS(<<"F","R","A","T","E","R">>), LITERALS(<<"S","O","R","O","R">>), LITERALS(<<"H","E","R","E","S">>)>>)>>), MAX_REPEAT(1, MAXREPEAT, <<ANY_OF(Whitespace)>>)>> \o LITERALS(<<"F","E","C","I","T">>) \o <<AT_BOUNDARY>>,
     three_names |-> <<AT_BOUNDARY, SUBPATTERN(1, <<MAX_REPEAT(1, 3, <<ANY_OF(Uppercase)>>), MAX_REPEAT(0, 1, LITERALS(<<".">>))>>), MAX_REPEAT(1, MAXREPEAT, <<ANY_OF(Whitespace)>>), SUBPATTERN(2, <<MAX_REPEAT(1, MAXREPEAT, <<ANY_OF(Uppercase)>>)>> \o LITERALS(<<"U","S">>)), MAX_REPEAT(1, MAXREPEAT, <<ANY_OF(Whitespace)>>), SUBPATTERN(3, <<MAX_REPEAT(1, MAXREPEAT, <<ANY_OF(Uppercase)>>)>> \o LITERALS(<<"U","S">>)), MAX_REPEAT(1, MAXREPEAT, <<ANY_OF(Whitespace)>>)>> \o LITERALS(<<"F","E","C","I","T">>) \o <<AT_BOUNDARY>>,
     two_names |-> <<AT_BOUNDARY, SUBPATTERN(1, <<MAX_REPEAT(1, MAXREPEAT, <<ANY_OF(Uppercase)>>)>> \o LITERALS(<<"U","S">>)), MAX_REPEAT(1, MAXREPEAT, <<ANY_OF(Whitespace)>>), SUBPATTERN(2, <<MAX_REPEAT(1, MAXREPEAT, <<ANY_OF(Uppercase)>>)>> \o LITERALS(<<"U","S">>)), MAX_REPEAT(1, MAXREPEAT, <<ANY_OF(Whitespace)>>)>> \o LITERALS(<<"F","E","C","I","T">>) \o <<AT_BOUNDARY>>],
    [with_relationship |-> <<AT_BOUNDARY, SUBPATTERN(1, <<MAX_REPEAT(1, MAXREPEAT, <<ANY_OF(Uppercase)>>)>> \o LITERALS(<<"U","S">>)), MAX_REPEAT(1, MAXREPEAT, <<ANY_OF(Whitespace)>>), SUBPATTERN(2, <<MAX_REPEAT(1, MAXREPEAT, <<ANY_OF(Uppercase)>>)>> \o LITERALS(<<"U","S">>)), MAX_REPEAT(1, MAXREPEAT, <<ANY_OF(Whitespace)>>), SUBPATTERN(3, <<BRANCH(<<LITERALS(<<"P","A","T","E","R">>), LITERALS(<<"M","A","T","E","R">>), LITERALS(<<"F","I","L","I","U","S">>), LITERALS(<<"F","I","L","I","A">>), LITERALS(<<"F","R","A","T","E","R">>), LITERALS(<<"S","O","R","O","R">>), LITERALS(<<"H","E","R","E","S">>)>>)>>), MAX_REPEAT(1, MAXREPEAT, <<ANY_OF(Whitespace)>>)>> \o LITERALS(<<"F","E","C","E","R","V","N","T">>) \o <<AT_BOUNDARY>>,
     three_names |-> <<AT_BOUNDARY, SUBPATTERN(1, <<MAX_REPEAT(1, 3, <<ANY_OF(Uppercase)>>), MAX_REPEAT(0, 1, LITERALS(<<".">>))>>), MAX_REPEAT(1, MAXREPEAT, <<ANY_OF(Whitespace)>>), SUBPATTERN(2, <<MAX_REPEAT(1, MAXREPEAT, <<ANY_OF(Uppercase)>>)>> \o LITERALS(<<"U","S">>)), MAX_REPEAT(1, MAXREPEAT, <<ANY_OF(Whitespace)>>), SUBPATTERN(3, <<MAX_REPEAT(1, MAXREPEAT, <<ANY_OF(Uppercase)>>)>> \o LITERALS(<<"U","S">>)), MAX_REPEAT(1, MAXREPEAT, <<ANY_OF(Whitespace)>>)>> \o LITERALS(<<"F","E","C","E","R","V","N","T">>) \o <<AT_BOUNDARY>>,
     two_names |-> <<AT_BOUNDARY, SUBPATTERN(1, <<MAX_REPEAT(1, MAXREPEAT, <<ANY_OF(Uppercase)>>)>> \o LITERALS(<<"U","S">>)), MAX_REPEAT(1, MAXREPEAT, <<ANY_OF(Whitespace)>>), SUBPATTERN(2, <<MAX_REPEAT(1, MAXREPEAT, <<ANY_OF(Uppercase)>>)>> \o LITERALS(<<"U","S">>)), MAX_REPEAT(1, MAXREPEAT, <<ANY_OF(Whitespace)>>)>> \o LITERALS(<<"F","E","C","E","R","V","N","T">>) \o <<AT_BOUNDARY>>],
    [with_relationship |-> <<AT_BOUNDARY, SUBPATTERN(1, <<MAX_REPEAT(1, MAXREPEAT, <<ANY_OF(Uppercase)>>)>> \o LITERALS(<<"U","S">>)), MAX_REPEAT(1, MAXREPEAT, <<ANY_OF(Whitespace)>>), SUBPATTERN(2, <<MAX_REPEAT(1, MAXREPEAT, <<ANY_OF(Uppercase)>>)>> \o LITERALS(<<"U","S">>)), MAX_REPEAT(1, MAXREPEAT, <<ANY_OF(Whitespace)>>), SUBPATTERN(3, <<BRANCH(<<LITERALS(<<"P","A","T","E","R">>), LITERALS(<<"M","A","T","E","R">>), LITERALS(<<"F","I","L","I","U","S">>), LITERALS(<<"F","I","L","I","A">>), LITERALS(<<"F","R","A","T","E","R">>), LITERALS(<<"S","O","R","O","R">>), LITERALS(<<"H","E","R","E","S">>)>>)>>), MAX_REPEAT(1, MAXREPEAT, <<ANY_OF(Whitespace)>>)>> \o LITERALS(<<"P","O","S","U","I","T">>) \o <<AT_BOUNDARY>>,
     three_names |-> <<AT_BOUNDARY, SUBPATTERN(1, <<MAX_REPEAT(1, 3, <<ANY_OF(Uppercase)>>), MAX_REPEAT(0, 1, LITERALS(<<".">>))>>), MAX_REPEAT(1, MAXREPEAT, <<ANY_OF(Whitespace)>>), SUBPATTERN(2, <<MAX_REPEAT(1, MAXREPEAT, <<ANY_OF(Uppercase)>>)>> \o LITERALS(<<"U","S">>)), MAX_REPEAT(1, MAXREPEAT, <<ANY_OF(Whitespace)>>), SUBPATTERN(3, <<MAX_REPEAT(1, MAXREPEAT, <<ANY_OF(Uppercase)>>)>> \o LITERALS(<<"U","S">>)), MAX_REPEAT(1, MAXREPEAT, <<ANY_OF(Whitespace)>>)>> \o LITERALS(<<"P","O","S","U","I","T">>) \o <<AT_BOUNDARY>>,
     two_names |-> <<AT_BOUNDARY, SUBPATTERN(1, <<MAX_REPEAT(1, MAXREPEAT, <<ANY_OF(Uppercase)>>)>> \o LITERALS(<<"U","S">>)), MAX_REPEAT(1, MAXREPEAT, <<ANY_OF(Whitespace)>>), SUBPATTERN(2, <<MAX_REPEAT(1, MAXREPEAT, <<ANY_OF(Uppercase)>>)>> \o LITERALS(<<"U","S">>)), MAX_REPEAT(1, MAXREPEAT, <<ANY_OF(Whitespace)>>)>> \o LITERALS(<<"P","O","S","U","I","T">>) \o <<AT_BOUNDARY>>],
    [with_relationship |-> <<AT_BOUNDARY, SUBPATTERN(1, <<MAX_REPEAT(1, MAXREPEAT, <<ANY_OF(Uppercase)>>)>> \o LITERALS(<<"U","S">>)), MAX_REPEAT(1, MAXREPEAT, <<ANY_OF(Whitespace)>>), SUBPATTERN(2, <<MAX_REPEAT(1, MAXREPEAT, <<ANY_OF(Uppercase)>>)>> \o LITERALS(<<"U","S">>)), MAX_REPEAT(1, MAXREPEAT, <<ANY_OF(Whitespace)>>), SUBPATTERN(3, <<BRANCH(<<LITERALS(<<"P","A","T","E","R">>), LITERALS(<<"M","A","T","E","R">>), LITERALS(<<"F","I","L","I","U","S">>), LITERALS(<<"F","I","L","I","A">>), LITERALS(<<"F","R","A","T","E","R">>), LITERALS(<<"S","O","R","O","R">>), LITERALS(<<"H","E","R","E","S">>)>>)>>), MAX_REPEAT(1, MAXREPEAT, <<ANY_OF(Whitespace)>>)>> \o LITERALS(<<"P","O","S","U","E","R","V","N","T">>) \o <<AT_BOUNDARY>>,
     three_names |-> <<AT_BOUNDARY, SUBPATTERN(1, <<MAX_REPEAT(1, 3, <<ANY_OF(Uppercase)>>), MAX_REPEAT(0, 1, LITERALS(<<".">>))>>), MAX_REPEAT(1, MAXREPEAT, <<ANY_OF(Whitespace)>>), SUBPATTERN(2, <<MAX_REPEAT(1, MAXREPEAT, <<ANY_OF(Uppercase)>>)>> \o LITERALS(<<"U","S">>)), MAX_REPEAT(1, MAXREPEAT, <<ANY_OF(Whitespace)>>), SUBPATTERN(3, <<MAX_REPEAT(1, MAXREPEAT, <<ANY_OF(Uppercase)>>)>> \o LITERALS(<<"U","S">>)), MAX_REPEAT(1, MAXREPEAT, <<ANY_OF(Whitespace)>>)>> \o LITERALS(<<"P","O","S","U","E","R","V","N","T">>) \o <<AT_BOUNDARY>>,
     two_names |-> <<AT_BOUNDARY, SUBPATTERN(1, <<MAX_REPEAT(1, MAXREPEAT, <<ANY_OF(Uppercase)>>)>> \o LITERALS(<<"U","S">>)), MAX_REPEAT(1, MAXREPEAT, <<ANY_OF(Whitespace)>>), SUBPATTERN(2, <<MAX_REPEAT(1, MAXREPEAT, <<ANY_OF(Uppercase)>>)>> \o LITERALS(<<"U","S">>)), MAX_REPEAT(1, MAXREPEAT, <<ANY_OF(Whitespace)>>)>> \o LITERALS(<<"P","O","S","U","E","R","V","N","T">>) \o <<AT_BOUNDARY>>],
    [with_relationship |-> <<AT_BOUNDARY, SUBPATTERN(1, <<MAX_REPEAT(1, MAXREPEAT, <<ANY_OF(Uppercase)>>)>> \o LITERALS(<<"U","S">>)), MAX_REPEAT(1, MAXREPEAT, <<ANY_OF(Whitespace)>>), SUBPATTERN(2, <<MAX_REPEAT(1, MAXREPEAT, <<ANY_OF(Uppercase)>>)>> \o LITERALS(<<"U","S">>)), MAX_REPEAT(1, MAXREPEAT, <<ANY_OF(Whitespace)>>), SUBPATTERN(3, <<BRANCH(<<LITERALS(<<"P","A","T","E","R">>), LITERALS(<<"M","A","T","E","R">>), LITERALS(<<"F","I","L","I","U","S">>), LITERALS(<<"F","I","L","I","A">>), LITERALS(<<"F","R","A","T","E","R">>), LITERALS(<<"S","O","R","O","R">>), LITERALS(<<"H","E","R","E","S">>)>>)>>), MAX_REPEAT(1, MAXREPEAT, <<ANY_OF(Whitespace)>>)>> \o LITERALS(<<"C","U","R","A","U","I","T">>) \o <<AT_BOUNDARY>>,
     three_names |-> <<AT_BOUNDARY, SUBPATTERN(1, <<MAX_REPEAT(1, 3, <<ANY_OF(Uppercase)>>), MAX_REPEAT(0, 1, LITERALS(<<".">>))>>), MAX_REPEAT(1, MAXREPEAT, <<ANY_OF(Whitespace)>>), SUBPATTERN(2, <<MAX_REPEAT(1, MAXREPEAT, <<ANY_OF(Uppercase)>>)>> \o LITERALS(<<"U","S">>)), MAX_REPEAT(1, MAXREPEAT, <<ANY_OF(Whitespace)>>), SUBPATTERN(3, <<MAX_REPEAT(1, MAXREPEAT, <<ANY_OF(Uppercase)>>)>> \o LITERALS(<<"U","S">>)), MAX_REPEAT(1, MAXREPEAT, <<ANY_OF(Whitespace)>>)>> \o LITERALS(<<"C","U","R","A","U","I","T">>) \o <<AT_BOUNDARY>>,
     two_names |-> <<AT_BOUNDARY, SUBPATTERN(1, <<MAX_REPEAT(1, MAXREPEAT, <<ANY_OF(Uppercase)>>)>> \o LITERALS(<<"U","S">>)), MAX_REPEAT(1, MAXREPEAT, <<ANY_OF(Whitespace)>>), SUBPATTERN(2, <<MAX_REPEAT(1, MAXREPEAT, <<ANY_OF(Uppercase)>>)>> \o LITERALS(<<"U","S">>)), MAX_REPEAT(1, MAXREPEAT, <<ANY_OF(Whitespace)>>)>> \o LITERALS(<<"C","U","R","A","U","I","T">>) \o <<AT_BOUNDARY>>],
    [with_relationship |-> <<AT_BOUNDARY, SUBPATTERN(1, <<MAX_REPEAT(1, MAXREPEAT, <<ANY_OF(Uppercase)>>)>> \o LITERALS(<<"U","S">>)), MAX_REPEAT(1, MAXREPEAT, <<ANY_OF(Whitespace)>>), SUBPATTERN(2, <<MAX_REPEAT(1, MAXREPEAT, <<ANY_OF(Uppercase)>>)>> \o LITERALS(<<"U","S">>)), MAX_REPEAT(1, MAXREPEAT, <<ANY_OF(Whitespace)>>), SUBPATTERN(3, <<BRANCH(<<LITERALS(<<"P","A","T","E","R">>), LITERALS(<<"M","A","T","E","R">>), LITERALS(<<"F","I","L","I","U","S">>), LITERALS(<<"F","I","L","I","A">>), LITERALS(<<"F","R","A","T","E","R">>), LITERALS(<<"S","O","R","O","R">>), LITERALS(<<"H","E","R","E","S">>)>>)>>), MAX_REPEAT(1, MAXREPEAT, <<ANY_OF(Whitespace)>>)>> \o LITERALS(<<"C","U","R","A","U","E","R","V","N","T">>) \o <<AT_BOUNDARY>>,
     three_names |-> <<AT_BOUNDARY, SUBPATTERN(1, <<MAX_REPEAT(1, 3, <<ANY_OF(Uppercase)>>), MAX_REPEAT(0, 1, LITERALS(<<".">>))>>), MAX_REPEAT(1, MAXREPEAT, <<ANY_OF(Whitespace)>>), SUBPATTERN(2, <<MAX_REPEAT(1, MAXREPEAT, <<ANY_OF(Uppercase)>>)>> \o LITERALS(<<"U","S">>)), MAX_REPEAT(1, MAXREPEAT, <<ANY_OF(Whitespace)>>), SUBPATTERN(3, <<MAX_REPEAT(1, MAXREPEAT, <<ANY_OF(Uppercase)>>)>> \o LITERALS(<<"U","S">>)), MAX_REPEAT(1, MAXREPEAT, <<ANY_OF(Whitespace)>>)>> \o LITERALS(<<"C","U","R","A","U","E","R","V","N","T">>) \o <<AT_BOUNDARY>>,
     two_names |-> <<AT_BOUNDARY, SUBPATTERN(1, <<MAX_REPEAT(1, MAXREPEAT, <<ANY_OF(Uppercase)>>)>> \o LITERALS(<<"U","S">>)), MAX_REPEAT(1, MAXREPEAT, <<ANY_OF(Whitespace)>>), SUBPATTERN(2, <<MAX_REPEAT(1, MAXREPEAT, <<ANY_OF(Uppercase)>>)>> \o LITERALS(<<"U","S">>)), MAX_REPEAT(1, MAXREPEAT, <<ANY_OF(Whitespace)>>)>> \o LITERALS(<<"C","U","R","A","U","E","R","V","N","T">>) \o <<AT_BOUNDARY>>]
  >>

relationship_before_fecit ==
  <<
    [re |-> <<AT_BOUNDARY>> \o LITERALS(<<"P","A","T","E","R">>) \o <<MAX_REPEAT(1, MAXREPEAT, <<ANY_OF(Whitespace)>>), BRANCH(<<LITERALS(<<"F","E","C","I","T">>), LITERALS(<<"P","O","S","U","I","T">>), LITERALS(<<"C","U","R","A","U","I","T">>)>>), AT_BOUNDARY>>,
     value |-> <<"f","a","t","h","e","r">>, confidence |-> 88],
    [re |-> <<AT_BOUNDARY>> \o LITERALS(<<"M","A","T","E","R">>) \o <<MAX_REPEAT(1, MAXREPEAT, <<ANY_OF(Whitespace)>>), BRANCH(<<LITERALS(<<"F","E","C","I","T">>), LITERALS(<<"P","O","S","U","I","T">>), LITERALS(<<"C","U","R","A","U","I","T">>)>>), AT_BOUNDARY>>,
     value |-> <<"m","o","t","h","e","r">>, confidence |-> 88],
    [re |-> <<AT_BOUNDARY>> \o LITERALS(<<"F","I","L","I","U","S">>) \o <<MAX_REPEAT(1, MAXREPEAT, <<ANY_OF(Whitespace)>>), BRANCH(<<LITERALS(<<"F","E","C","I","T">>), LITERALS(<<"P","O","S","U","I","T">>), LITERALS(<<"C","U","R","A","U","I","T">>)>>), AT_BOUNDARY>>,
     value |-> <<"s","o","n">>, confidence |-> 88],
    [re |-> <<AT_BOUNDARY>> \o LITERALS(<<"F","I","L","I","A">>) \o <<MAX_REPEAT(1, MAXREPEAT, <<ANY_OF(Whitespace)>>), BRANCH(<<LITERALS(<<"F","E","C","I","T">>), LITERALS(<<"P","O","S","U","I","T">>), LITERALS(<<"C","U","R","A","U","I","T">>)>>), AT_BOUNDARY>>,
     value |-> <<"d","a","u","g","h","t","e","r">>, confidence |-> 88],
    [re |-> <<AT_BOUNDARY>> \o LITERALS(<<"C","O","N","I","U","X">>) \o <<MAX_REPEAT(1, MAXREPEAT, <<ANY_OF(Whitespace)>>), BRANCH(<<LITERALS(<<"F","E","C","I","T">>), LITERALS(<<"P","O","S","U","I","T">>), LITERALS(<<"C","U","R","A","U","I","T">>)>>), AT_BOUNDARY>>,
     value |-> <<"s","p","o","u","s","e">>, confidence |-> 85],
    [re |-> <<AT_BOUNDARY>> \o LITERALS(<<"F","R","A","T","E","R">>) \o <<MAX_REPEAT(1, MAXREPEAT, <<ANY_OF(Whitespace)>>), BRANCH(<<LITERALS(<<"F","E","C","I","T">>), LITERALS(<<"P","O","S","U","I","T">>), LITERALS(<<"C","U","R","A","U","I","T">>)>>), AT_BOUNDARY>>,
     value |-> <<"b","r","o","t","h","e","r">>, confidence |-> 85],
    [re |-> <<AT_BOUNDARY>> \o LITERALS(<<"S","O","R","O","R">>) \o <<MAX_REPEAT(1, MAXREPEAT, <<ANY_OF(Whitespace)>>), BRANCH(<<LITERALS(<<"F","E","C","I","T">>), LITERALS(<<"P","O","S","U","I","T">>), LITERALS(<<"C","U","R","A","U","I","T">>)>>), AT_BOUNDARY>>,
     value |-> <<"s","i","s","t","e","r">>, confidence |-> 85],
    [re |-> <<AT_BOUNDARY>> \o LITERALS(<<"H","E","R","E","S">>) \o <<MAX_REPEAT(1, MAXREPEAT, <<ANY_OF(Whitespace)>>), BRANCH(<<LITERALS(<<"F","E","C","I","T">>), LITERALS(<<"P","O","S","U","I","T">>), LITERALS(<<"C","U","R","A","U","I","T">>)>>), AT_BOUNDARY>>,
     value |-> <<"h","e","i","r">>, confidence |-> 88]
  >>

patronymic_pattern ==
  <<AT_BOUNDARY, SUBPATTERN(1, <<MAX_REPEAT(1, MAXREPEAT, <<ANY_OF(Uppercase)>>)>> \o LITERALS(<<"U","S">>)), MAX_REPEAT(1, MAXREPEAT, <<ANY_OF(Whitespace)>>), SUBPATTERN(2, <<MAX_REPEAT(1, MAXREPEAT, <<ANY_OF(Uppercase)>>)>> \o LITERALS(<<"I">>)), MAX_REPEAT(1, MAXREPEAT, <<ANY_OF(Whitespace)>>)>> \o LITERALS(<<"F">>) \o <<MAX_REPEAT(0, 1, LITERALS(<<".">>)), AT_BOUNDARY>>

filiation_son_pattern ==
  <<AT_BOUNDARY, SUBPATTERN(1, <<MAX_REPEAT(1, MAXREPEAT, <<ANY_OF(Uppercase)>>)>> \o LITERALS(<<"I">>) \o <<MAX_REPEAT(0, 1, LITERALS(<<"S">>))>>), MAX_REPEAT(1, MAXREPEAT, <<ANY_OF(Whitespace)>>)>> \o LITERALS(<<"F","I","L","I","U","S">>) \o <<AT_BOUNDARY>>

filiation_daughter_pattern ==
  <<AT_BOUNDARY, SUBPATTERN(1, <<MAX_REPEAT(1, MAXREPEAT, <<ANY_OF(Uppercase)>>)>> \o LITERALS(<<"I">>) \o <<MAX_REPEAT(0, 1, LITERALS(<<"S">>))>>), MAX_REPEAT(1, MAXREPEAT, <<ANY_OF(Whitespace)>>)>> \o LITERALS(<<"F","I","L","I","A">>) \o <<AT_BOUNDARY>>

relationship_adjectives ==
  <<
    [re |-> <<AT_BOUNDARY>> \o LITERALS(<<"C","A","R","I","S","S","I","M">>) \o <<MAX_REPEAT(1, MAXREPEAT, <<ANY_OF({"A","O","E"})>>), AT_BOUNDARY>>,
     value |-> <<"d","e","a","r","e","s","t">>, confidence |-> 75],
    [re |-> <<AT_BOUNDARY>> \o LITERALS(<<"P","I","I","S","S","I","M">>) \o <<MAX_REPEAT(1, MAXREPEAT, <<ANY_OF({"A","O","E"})>>), AT_BOUNDARY>>,
     value |-> <<"m","o","s","t"," ","d","e","v","o","t","e","d">>, confidence |-> 75],
    [re |-> <<AT_BOUNDARY>> \o LITERALS(<<"D","U","L","C","I","S","S","I","M">>) \o <<MAX_REPEAT(1, MAXREPEAT, <<ANY_OF({"A","O","E"})>>), AT_BOUNDARY>>,
     value |-> <<"s","w","e","e","t","e","s","t">>, confidence |-> 75],
    [re |-> <<AT_BOUNDARY>> \o LITERALS(<<"B","E","N","E">>) \o <<MAX_REPEAT(1, MAXREPEAT, <<ANY_OF(Whitespace)>>)>> \o LITERALS(<<"M","E","R","E","N","T","I">>) \o <<AT_BOUNDARY>>,
     value |-> <<"w","e","l","l","-","d","e","s","e","r","v","i","n","g">>, confidence |-> 75],
    [re |-> <<AT_BOUNDARY>> \o LITERALS(<<"I","N","C","O","M","P","A","R","A","B","I","L","I">>) \o <<AT_BOUNDARY>>,
     value |-> <<"i","n","c","o","m","p","a","r","a","b","l","e">>, confidence |-> 75]
  >>

multiple_dedicators_pattern ==
  <<AT_BOUNDARY, SUBPATTERN(1, <<MAX_REPEAT(1, MAXREPEAT, <<ANY_OF(Uppercase)>>)>> \o LITERALS(<<"U","S">>)), MAX_REPEAT(1, MAXREPEAT, <<ANY_OF(Whitespace)>>), SUBPATTERN(2, <<MAX_REPEAT(1, MAXREPEAT, <<ANY_OF(Uppercase)>>)>> \o LITERALS(<<"U","S">>)), MAX_REPEAT(1, MAXREPEAT, <<ANY_OF(Whitespace)>>), SUBPATTERN(3, <<MAX_REPEAT(1, MAXREPEAT, <<ANY_OF(Uppercase)>>)>>), MAX_REPEAT(1, MAXREPEAT, <<ANY_OF(Whitespace)>>)>> \o LITERALS(<<"E","T">>) \o <<MAX_REPEAT(1, MAXREPEAT, <<ANY_OF(Whitespace)>>), SUBPATTERN(4, <<MAX_REPEAT(1, MAXREPEAT, <<ANY_OF(Uppercase)>>)>>), MAX_REPEAT(1, MAXREPEAT, <<ANY_OF(Whitespace)>>), SUBPATTERN(5, <<MAX_REPEAT(1, MAXREPEAT, <<ANY_OF(Uppercase)>>)>>), MAX_REPEAT(1, MAXREPEAT, <<ANY_OF(Whitespace)>>), SUBPATTERN(6, <<MAX_REPEAT(1, MAXREPEAT, <<ANY_OF(Uppercase)>>)>>), MAX_REPEAT(1, MAXREPEAT, <<ANY_OF(Whitespace)>>)>> \o LITERALS(<<"F","E","C","E","R","V","N","T">>) \o <<AT_BOUNDARY>>


\* the index of the first rule of the table that matches, 0 if none
FirstHit(rules, nt) ==
  LET Least(hits) ==
        IF hits = {} THEN 0 ELSE CHOOSE k \in hits : \A j \in hits : k <= j
  IN Least({k \in 1..Len(rules) : Matched(re_search(rules[k].re, nt))})

\* s[:-n]
DropLast(s, n) == IF Len(s) <= n THEN << >> ELSE SubSeq(s, 1, Len(s) - n)

\* s.endswith(suffix)
EndsWith(s, suffix) ==
  Len(s) >= Len(suffix) /\ SubSeq(s, Len(s) - Len(suffix) + 1, Len(s)) = suffix

\* match.group(g).replace('U', 'V')
GroupV(nt, m, g) == Replace(group(nt, m, g), <<"U">>, <<"V">>)

\* match.group(g).replace('U', 'v').lower().capitalize()
GroupName(nt, m, g) ==
  Capitalize(LowerText(Replace(group(nt, m, g), <<"U">>, <<"v">>)))

_extract_genitive_relationships(nt) ==
  LET \* the feminine rule that matched first, with its match
      FemRule(rule, m) ==
        Put(Put(NoEntities, "deceased_name",
                Entity(Capitalize(DropLast(GroupV(nt, m, 1), 2)) \o <<"a">>
                       \o <<" ">>
                       \o Capitalize(DropLast(GroupV(nt, m, 2), 2)) \o <<"a">>,
                       82)),
            "deceased_relationship", Entity(rule.value, rule.confidence))
      Fem(rules, f) ==
        IF f = 0 THEN NoEntities
        ELSE FemRule(rules[f], re_search(rules[f].re, nt))
      \* the masculine rule that matched first, with its match
      MascRule(fem, rule, m) ==
        Put(Put(fem, "deceased_name",
                Entity(DropLast(GroupV(nt, m, 1), 1) \o <<"u","s"," ">>
                       \o DropLast(GroupV(nt, m, 2), 1) \o <<"u","s">>, 80)),
            "deceased_relationship", Entity(rule.value, rule.confidence))
      Masc(fem, rules, k) ==
        IF k = 0 \/ "deceased_name" \in DOMAIN fem THEN fem
        ELSE MascRule(fem, rules[k], re_search(rules[k].re, nt))
      Table(rules) == <<rules, FirstHit(rules, nt)>>
      Both(fr, mr) == Masc(Fem(fr[1], fr[2]), mr[1], mr[2])
  IN Both(Table(relationship_words_fem), Table(relationship_words_masc))

\* for verb in dedication_verbs, from the k-th verb on
RECURSIVE DedicatorLoop(_, _, _)
DedicatorLoop(entities, nt, k) ==
  IF k > Len(dedication_verbs) THEN entities
  ELSE
    LET \* the pattern with a relationship word
        First(m1) ==
          IF Matched(m1) /\ "dedicator" \notin DOMAIN entities
          THEN Put(entities, "dedicator",
                   Entity(GroupName(nt, m1, 1) \o <<" ">>
                          \o GroupName(nt, m1, 2), 85))
          ELSE entities
        \* the patterns with three names and with two names
        Others(e1, m2, m3) ==
          IF Matched(m2) /\ "dedicator" \notin DOMAIN e1
          THEN Put(e1, "dedicator",
                   Entity(group(nt, m2, 1) \o <<" ">> \o GroupName(nt, m2, 2)
                          \o <<" ">> \o GroupName(nt, m2, 3), 85))
          ELSE IF Matched(m3) /\ "dedicator" \notin DOMAIN e1
          THEN Put(e1, "dedicator",
                   Entity(GroupName(nt, m3, 1) \o <<" ">>
                          \o GroupName(nt, m3, 2), 82))
          ELSE DedicatorLoop(e1, nt, k + 1)
        Verb(verb) ==
          Others(First(re_search(verb.with_relationship, nt)),
                 re_search(verb.three_names, nt),
                 re_search(verb.two_names, nt))
    IN Verb(dedication_verbs[k])

_extract_dedicator_patterns(nt) ==
  LET entities == DedicatorLoop(NoEntities, nt, 1)
      k == FirstHit(relationship_before_fecit, nt)
  IN IF k = 0 \/ "dedicator_relationship" \in DOMAIN entities THEN entities
     ELSE Put(entities, "dedicator_relationship",
              Entity(relationship_before_fecit[k].value,
                     relationship_before_fecit[k].confidence))

_extract_patronymic_patterns(nt) ==
  LET m == re_search(patronymic_pattern, nt) IN
  IF ~Matched(m) THEN NoEntities
  ELSE LET father == DropLast(GroupV(nt, m, 2), 1) \o <<"u","s">>
       IN Put(Put(NoEntities, "patronymic",
                  Entity(<<"c","h","i","l","d"," ","o","f"," ">> \o father, 90)),
              "father_name", Entity(father, 85))

\* the nominative the filiation rules make of a genitive
FatherOf(father_gen) ==
  IF EndsWith(father_gen, <<"I","S">>)
  THEN DropLast(father_gen, 2) \o <<"i","s">>
  ELSE DropLast(father_gen, 1) \o <<"u","s">>

_extract_filiation_patterns(nt) ==
  LET m1 == re_search(filiation_son_pattern, nt)
      son == IF ~Matched(m1) THEN NoEntities
             ELSE Put(Put(NoEntities, "father_name",
                          Entity(FatherOf(GroupV(nt, m1, 1)), 88)),
                      "filiation", Entity(<<"s","o","n">>, 92))
      m2 == re_search(filiation_daughter_pattern, nt)
  IN IF ~Matched(m2) \/ "father_name" \in DOMAIN son THEN son
     ELSE Put(Put(son, "father_name",
                  Entity(FatherOf(GroupV(nt, m2, 1)), 88)),
              "filiation", Entity(<<"d","a","u","g","h","t","e","r">>, 92))

_extract_age_relationship_patterns(nt) ==
  LET k == FirstHit(relationship_adjectives, nt) IN
  IF k = 0 THEN NoEntities
  ELSE Put(NoEntities, "dedication_sentiment",
           Entity(relationship_adjectives[k].value,
                  relationship_adjectives[k].confidence))

_extract_multiple_dedicators(nt) ==
  LET Found(m) ==
  IF ~Matched(m) THEN NoEntities
  ELSE
    ("dedicator_1" :>
       Entity(GroupV(nt, m, 1) \o <<" ">> \o GroupV(nt, m, 2), 80))
    @@ ("dedicator_1_relationship" :> Entity(LowerText(GroupV(nt, m, 3)), 85))
    @@ ("dedicator_2" :>
       Entity(GroupV(nt, m, 4) \o <<" ">> \o GroupV(nt, m, 5), 80))
    @@ ("dedicator_2_relationship" :> Entity(LowerText(GroupV(nt, m, 6)), 85))
    @@ ("multiple_dedicators" :> Entity(<<"t","r","u","e">>, 90))
  IN Found(re_search(multiple_dedicators_pattern, nt))

\* entities.update(found)
Update(entities, found) == found @@ entities

\* the view of the text the templates run on
grammar_normalized_text(t) ==
  CollapseWhitespace(Strip(
    Replace(Replace(Replace(UpperText(t), <<"V">>, <<"U">>),
                    <<"<","B","R",">">>, <<" ">>),
            <<"<","B","R","/",">">>, <<" ">>)))

extract_with_grammar_templates(t) ==
  LET nt == grammar_normalized_text(t) IN
  Update(Update(Update(Update(Update(
    _extract_genitive_relationships(nt),
    _extract_dedicator_patterns(nt)),
    _extract_patronymic_patterns(nt)),
    _extract_filiation_patterns(nt)),
    _extract_age_relationship_patterns(nt)),
    _extract_multiple_dedicators(nt))

(***************************************************************************)
(* The pattern extractor on its own: texts of up to MaxPatternWords        *)
(* phrases.                                                                *)
(***************************************************************************)
MaxPatternWords == 2

PatternTexts ==
  {<< >>} \cup
  UNION { { JoinWords(ws) : ws \in [1..n -> PatternVocab] } : n \in 1..MaxPatternWords }

InitPattern ==
  /\ pt_pc = "ready"
  /\ pt_text \in PatternTexts
  /\ pt_entities = << >>
  /\ SpacingIdle
  /\ ReconcileIdle
  /\ HybridIdle
  /\ MergeIdle
  /\ ConsolidateIdle
  /\ NewIdle

ExtractEntitiesStub ==
  /\ pt_pc = "ready"
  /\ pt_entities' = _extract_entities_stub(pt_text)
  /\ pt_pc' = "done"
  /\ UNCHANGED pt_text
  /\ UNCHANGED <<sp_vars, rc_vars, hy_vars, mg_vars, cs_vars, nw_vars>>

NextPattern == ExtractEntitiesStub

SpecPattern == InitPattern /\ [][NextPattern]_vars

(***************************************************************************)
(* Pattern extractor claims                                                *)
(***************************************************************************)
\* text[:50]
First50(t) == [k \in 1..(IF Len(t) < 50 THEN Len(t) ELSE 50) |-> t[k]]

\* C9: _extract_entities_stub never returns an empty mapping; the result is
\* exactly the one entity 'text' (confidence 0.50, value the first 50
\* characters of the input) if and only if no category rule produced an
\* entity, and when some category matched the result is the categories'
\* entities, without 'text'.
C9_FallbackIffNoCategory ==
  pt_pc = "done" =>
    LET matched == CategoryEntities(pt_text)
        sentinel == "text" :> [value |-> First50(pt_text), confidence |-> 50]
    IN /\ DOMAIN pt_entities # {}
       /\ (DOMAIN matched = {}) <=> (pt_entities = sentinel)
       /\ DOMAIN matched # {} =>
            /\ "text" \notin DOMAIN pt_entities
            /\ pt_entities = matched

\* C9 witness: a text longer than 50 characters in which no category
\* matched was answered with the 50-character fallback entity
C9_Witness ==
  /\ pt_pc = "done"
  /\ Len(pt_text) > 50
  /\ DOMAIN pt_entities = {"text"}
  /\ Len(pt_entities["text"].value) = 50

(***************************************************************************)
(* The tagging backend (cltk) as the morphology and the dependency phase   *)
(* use it: NLP(...) may fail to load, analyze() may fail, and a word of    *)
(* its answer has a string, a part of speech, a lemma, features (empty, or *)
(* with a Case) and a dependency relation.                                 *)
(***************************************************************************)
\* text.replace('<BR>', ' ').replace('<BR/>', ' '), stripped, \s+ collapsed
backend_normalized_text(t) ==
  CollapseWhitespace(Strip(
    Replace(Replace(t, <<"<","B","R",">">>, <<" ">>),
            <<"<","B","R","/",">">>, <<" ">>)))

\* the tokens of a normalized text, in order
TokenStarts(t) == {i \in 1..Len(t) : t[i] # " " /\ (i = 1 \/ t[i-1] = " ")}
TokenFrom(t, i) ==
  SubSeq(t, i, CHOOSE j \in i..Len(t) :
                 /\ j = Len(t) \/ t[j+1] = " "
                 /\ \A k \in i..j : t[k] # " ")
Tokens(t) ==
  LET S == TokenStarts(t)
  IN [n \in 1..Cardinality(S) |->
        TokenFrom(t, CHOOSE i \in S : Cardinality({j \in S : j < i}) = n - 1)]

NoFeatures == [k \in {} |-> k]
Word(s, pos, lemma, features, rel) ==
  [string |-> s, pos |-> pos, lemma |-> lemma, features |-> features,
   dependency_relation |-> rel]
Untagged(s) == Word(s, "X", LowerText(s), NoFeatures, "dep")

\* the kin words a tagger lemmatizes
kin_forms ==
  <<
    [form |-> <<"F","I","L","I","A","E">>, lemma |-> <<"f","i","l","i","a">>, Case |-> "Dat"],
    [form |-> <<"F","I","L","I","O">>, lemma |-> <<"f","i","l","i","u","s">>, Case |-> "Dat"],
    [form |-> <<"P","A","T","R","I">>, lemma |-> <<"p","a","t","e","r">>, Case |-> "Dat"],
    [form |-> <<"M","A","T","R","I">>, lemma |-> <<"m","a","t","e","r">>, Case |-> "Dat"],
    [form |-> <<"P","A","T","E","R">>, lemma |-> <<"P","a","t","e","r">>, Case |-> "Nom"]
  >>

\* the reading of the i-th token that a tagger takes from its form
Lexical(words, i) ==
  LET s == words[i]
      u == UpperText(s)
      kin == {k \in 1..Len(kin_forms) : kin_forms[k].form = u}
  IN IF kin # {}
     THEN LET k == CHOOSE k \in kin : TRUE
          IN Word(s, "NOUN", kin_forms[k].lemma, "Case" :> kin_forms[k].Case,
                  IF kin_forms[k].Case = "Dat" THEN "iobj" ELSE "appos")
     ELSE IF EndsWith(u, <<"I","T">>) \/ EndsWith(u, <<"U","N","T">>)
     THEN Word(s, "VERB", LowerText(s), NoFeatures, "root")
     ELSE IF EndsWith(u, <<"A","E">>)
     THEN Word(s, "PROPN", LowerText(s), "Case" :> "Gen", "nmod")
     ELSE IF EndsWith(u, <<"U","S">>)
     THEN Word(s, "PROPN", LowerText(s), "Case" :> "Nom",
               IF i > 1 /\ UpperText(words[i-1]) = <<"E","T">>
               THEN "conj" ELSE "nsubj")
     ELSE IF Len(u) > 1 /\ EndsWith(u, <<"A">>)
     THEN Word(s, "PROPN", LowerText(s), "Case" :> "Abl", "obl")
     ELSE Untagged(s)

\* the cases a tagger may recognize; the words of any other case come back
\* without features
TaggerProfiles ==
  { {}, {"Gen", "Nom"}, {"Dat"}, {"Gen", "Nom", "Dat", "Abl"} }

\* doc.words of a tagger that recognizes the cases of profile
TaggedWords(t, profile) ==
  LET words == Tokens(backend_normalized_text(t))
  IN [i \in 1..Len(words) |->
        LET w == Lexical(words, i)
        IN IF DOMAIN w.features # {} /\ w.features["Case"] \notin profile
           THEN Untagged(words[i]) ELSE w]

\* what self._nlp.analyze can answer for a text: an exception, or words
Analyses(t) ==
  {[error |-> TRUE, words |-> << >>]}
  \cup {[error |-> FALSE, words |-> TaggedWords(t, profile)] :
          profile \in TaggerProfiles}

\* the answer of a phase that did not ask
NotAsked == [error |-> FALSE, words |-> << >>]

\* lemma -> (relationship, confidence)   [morphology.py 202-217]
relationship_lemmas ==
  <<
    [lemma |-> <<"p","a","t","e","r">>, value |-> <<"f","a","t","h","e","r">>, confidence |-> 92],
    [lemma |-> <<"m","a","t","e","r">>, value |-> <<"m","o","t","h","e","r">>, confidence |-> 92],
    [lemma |-> <<"f","i","l","i","u","s">>, value |-> <<"s","o","n">>, confidence |-> 92],
    [lemma |-> <<"f","i","l","i","a">>, value |-> <<"d","a","u","g","h","t","e","r">>, confidence |-> 92],
    [lemma |-> <<"c","o","n","i","u","n","x">>, value |-> <<"s","p","o","u","s","e">>, confidence |-> 90],
    [lemma |-> <<"u","x","o","r">>, value |-> <<"w","i","f","e">>, confidence |-> 90],
    [lemma |-> <<"m","a","r","i","t","u","s">>, value |-> <<"h","u","s","b","a","n","d">>, confidence |-> 90],
    [lemma |-> <<"f","r","a","t","e","r">>, value |-> <<"b","r","o","t","h","e","r">>, confidence |-> 88],
    [lemma |-> <<"s","o","r","o","r">>, value |-> <<"s","i","s","t","e","r">>, confidence |-> 88],
    [lemma |-> <<"a","v","u","s">>, value |-> <<"g","r","a","n","d","f","a","t","h","e","r">>, confidence |-> 88],
    [lemma |-> <<"a","v","i","a">>, value |-> <<"g","r","a","n","d","m","o","t","h","e","r">>, confidence |-> 88],
    [lemma |-> <<"n","e","p","o","s">>, value |-> <<"g","r","a","n","d","s","o","n">>, confidence |-> 88],
    [lemma |-> <<"n","e","p","t","i","s">>, value |-> <<"g","r","a","n","d","d","a","u","g","h","t","e","r">>, confidence |-> 88],
    [lemma |-> <<"h","e","r","e","s">>, value |-> <<"h","e","i","r">>, confidence |-> 90]
  >>

\* lemma -> relationship   [dependency.py 195-202]
relationship_map ==
  <<
    [lemma |-> <<"p","a","t","e","r">>, value |-> <<"f","a","t","h","e","r">>],
    [lemma |-> <<"m","a","t","e","r">>, value |-> <<"m","o","t","h","e","r">>],
    [lemma |-> <<"f","i","l","i","u","s">>, value |-> <<"s","o","n">>],
    [lemma |-> <<"f","i","l","i","a">>, value |-> <<"d","a","u","g","h","t","e","r">>],
    [lemma |-> <<"c","o","n","i","u","n","x">>, value |-> <<"s","p","o","u","s","e">>],
    [lemma |-> <<"u","x","o","r">>, value |-> <<"w","i","f","e">>]
  >>

\* the dedication verbs the backends look for in text.upper()   [morphology.py 157-158]
backend_dedication_verbs ==
  <<
    <<"F","E","C","I","T">>,
    <<"F","E","C","E","R","U","N","T">>,
    <<"P","O","S","U","I","T">>,
    <<"P","O","S","U","E","R","U","N","T">>,
    <<"C","U","R","A","V","I","T">>,
    <<"C","U","R","A","V","E","R","U","N","T">>
  >>

(***************************************************************************)
(* LatinMorphologyAnalyzer (src/latinepi/morphology.py)                    *)
(***************************************************************************)
\* sep.join(names)
RECURSIVE Join(_, _)
Join(names, sep) ==
  IF Len(names) = 0 THEN << >>
  ELSE IF Len(names) = 1 THEN names[1]
  ELSE names[1] \o sep \o Join(Tail(names), sep)

\* [word.string for word in words]
Strings(words) == [i \in 1..Len(words) |-> words[i].string]

\* names[:n]
FirstN(names, n) == SubSeq(names, 1, IF Len(names) < n THEN Len(names) ELSE n)

\* word.features is not empty and features.case == c
HasCase(w, c) == DOMAIN w.features # {} /\ w.features["Case"] = c

_extract_genitive_proper_nouns(words) ==
  LET genitive_names ==
        Strings(SelectSeq(words, LAMBDA w :
                  HasCase(w, "Gen") /\ w.pos \in {"PROPN", "NOUN"}))
  IN IF genitive_names = << >> THEN NoEntities
     ELSE "deceased_name_morphology" :>
            [value |-> Join(FirstN(genitive_names, 3), <<" ">>),
             confidence |-> 85, source |-> "morphology", case |-> "genitive"]

\* the first dedication verb that occurs in text.upper(), 0 if none
main_verb_found(t) ==
  LET found == {k \in 1..Len(backend_dedication_verbs) :
                  Contains(UpperText(t), backend_dedication_verbs[k])}
  IN IF found = {} THEN 0 ELSE CHOOSE k \in found : \A j \in found : k <= j

_extract_nominative_subjects(words, t) ==
  LET nominative_names ==
        Strings(SelectSeq(words, LAMBDA w :
                  HasCase(w, "Nom") /\ w.pos \in {"PROPN", "NOUN"}))
  IN IF main_verb_found(t) = 0 \/ nominative_names = << >> THEN NoEntities
     ELSE "dedicator_morphology" :>
            [value |-> Join(FirstN(nominative_names, 3), <<" ">>),
             confidence |-> 82, source |-> "morphology", case |-> "nominative"]

\* the index of the row of a lemma table for lemma, 0 if it has none
LemmaRow(table, lemma) ==
  LET rows == {k \in 1..Len(table) : table[k].lemma = lemma}
  IN IF rows = {} THEN 0 ELSE CHOOSE k \in rows : TRUE

_extract_dative_relationships(words) ==
  LET hits == {i \in 1..Len(words) :
                 /\ HasCase(words[i], "Dat")
                 /\ words[i].lemma # << >>
                 /\ LemmaRow(relationship_lemmas, LowerText(words[i].lemma)) # 0}
  IN IF hits = {} THEN NoEntities
     ELSE LET first == CHOOSE i \in hits : \A j \in hits : i <= j
              lemma == LowerText(words[first].lemma)
              row == relationship_lemmas[LemmaRow(relationship_lemmas, lemma)]
          IN "relationship_morphology" :>
               [value |-> row.value, confidence |-> row.confidence,
                source |-> "morphology", case |-> "dative", lemma |-> lemma]

_extract_ablative_locations(words) ==
  LET ablative_places ==
        Strings(SelectSeq(words, LAMBDA w :
                  HasCase(w, "Abl") /\ w.pos = "PROPN"))
  IN IF ablative_places = << >> THEN NoEntities
     ELSE "location_morphology" :>
            [value |-> Join(ablative_places, <<" ">>),
             confidence |-> 75, source |-> "morphology", case |-> "ablative"]

\* extract_entities_by_morphology, given what analyze answered
extract_entities_by_morphology(analysis, t) ==
  IF analysis.error \/ analysis.words = << >> THEN NoEntities
  ELSE Update(Update(Update(
         _extract_genitive_proper_nouns(analysis.words),
         _extract_nominative_subjects(analysis.words, t)),
         _extract_dative_relationships(analysis.words)),
         _extract_ablative_locations(analysis.words))

(***************************************************************************)
(* LatinDependencyParser (src/latinepi/dependency.py).  A cltk word always *)
(* has the attributes string, lemma, pos, governor and dependency_relation.*)
(***************************************************************************)
\* 'subject_of_' + verb.lower(), for each dedication verb
subject_relations ==
  <<"subject_of_fecit", "subject_of_fecerunt", "subject_of_posuit",
    "subject_of_posuerunt", "subject_of_curavit", "subject_of_curaverunt">>

_extract_verb_subjects(words, t) ==
  LET subjects ==
        Strings(SelectSeq(words, LAMBDA w :
                  w.dependency_relation \in {"nsubj", "nsubj:pass"}))
  IN IF main_verb_found(t) = 0 \/ subjects = << >> THEN NoEntities
     ELSE "dedicator_dependency" :>
            [value |-> Join(subjects, <<" ">>), confidence |-> 88,
             source |-> "dependency",
             relation |-> subject_relations[main_verb_found(t)]]

_extract_verb_objects(words) ==
  LET hits == {i \in 1..Len(words) :
                 /\ words[i].dependency_relation \in {"iobj", "obl"}
                 /\ LemmaRow(relationship_map, LowerText(words[i].lemma)) # 0}
  IN IF hits = {} THEN NoEntities
     ELSE LET last == CHOOSE i \in hits : \A j \in hits : j <= i
              row == relationship_map[
                       LemmaRow(relationship_map, LowerText(words[last].lemma))]
          IN "relationship_dependency" :>
               [value |-> row.value, confidence |-> 90,
                source |-> "dependency", relation |-> "indirect_object"]

_extract_genitive_modifiers(words) ==
  LET genitive_chains ==
        Strings(SelectSeq(words, LAMBDA w :
                  /\ w.dependency_relation \in {"nmod", "nmod:poss"}
                  /\ HasCase(w, "Gen")))
  IN IF genitive_chains = << >> THEN NoEntities
     ELSE "deceased_name_dependency" :>
            [value |-> Join(genitive_chains, <<" ">>), confidence |-> 86,
             source |-> "dependency", relation |-> "genitive_modifier"]

_extract_nested_relationships(words, t) ==
  IF ~Contains(UpperText(t), <<" ","E","T"," ">>) THEN NoEntities
  ELSE
    LET coordinated_subjects ==
          Strings(SelectSeq(words, LAMBDA w :
                    /\ w.dependency_relation = "conj"
                    /\ w.pos \in {"PROPN", "NOUN"}))
        has_coordination ==
          "has_coordination" :>
            [value |-> <<"t","r","u","e">>, confidence |-> 95,
             source |-> "dependency"]
    IN IF coordinated_subjects = << >> THEN has_coordination
       ELSE ("coordinated_dedicators" :>
               [value |-> Join(coordinated_subjects, <<",", " ">>),
                confidence |-> 82, source |-> "dependency",
                relation |-> "coordination"])
            @@ has_coordination

\* extract_entities_by_dependencies, given what analyze answered
extract_entities_by_dependencies(analysis, t) ==
  IF analysis.error \/ analysis.words = << >> THEN NoEntities
  ELSE Update(Update(Update(
         _extract_verb_subjects(analysis.words, t),
         _extract_verb_objects(analysis.words)),
         _extract_genitive_modifiers(analysis.words)),
         _extract_nested_relationships(analysis.words, t))

(***************************************************************************)
(* HybridLatinParser (src/latinepi/hybrid_parser.py)                       *)
(***************************************************************************)
\* entity.get('confidence', 0)
Conf(e) == IF "confidence" \in DOMAIN e THEN e.confidence ELSE 0

\* entity[field] = v
With(e, field, v) == (field :> v) @@ e

\* value['extraction_phase'] = phase_name, for every entity of a phase
WithPhase(entities, phase_name) ==
  [k \in DOMAIN entities |-> With(entities[k], "extraction_phase", phase_name)]

\* a candidate as confident as the entity the accumulator holds
OnTieSilent(old, candidate, verbose, phase_name) == old
OnTie(old, candidate, verbose, phase_name) ==
  IF verbose
  THEN With(old, "alternative_extraction",
            (IF "alternative_extraction" \in DOMAIN old
             THEN old.alternative_extraction ELSE << >>)
            \o << [value |-> candidate.value, phase |-> phase_name] >>)
  ELSE old

\* a merge in which the candidate always replaces the entity held (dict.update)
_merge_entitiesCandidateWins(existing, new, prefer_higher_confidence, verbose, phase_name) ==
  LET value == IF verbose /\ phase_name # "" THEN WithPhase(new, phase_name)
               ELSE new
  IN [key \in DOMAIN existing \cup DOMAIN new |->
        IF key \notin DOMAIN new THEN existing[key] ELSE value[key]]

_merge_entities(existing, new, prefer_higher_confidence, verbose, phase_name) ==
  LET value == IF verbose /\ phase_name # "" THEN WithPhase(new, phase_name)
               ELSE new
  IN [key \in DOMAIN existing \cup DOMAIN new |->
        IF key \notin DOMAIN new THEN existing[key]
        ELSE IF key \notin DOMAIN existing THEN value[key]
        ELSE IF ~prefer_higher_confidence THEN existing[key]
        ELSE IF Conf(value[key]) > Conf(existing[key]) THEN value[key]
        ELSE IF Conf(value[key]) = Conf(existing[key])
        THEN OnTie(existing[key], value[key], verbose, phase_name)
        ELSE existing[key]]

\* the slots k of the extractors with k.startswith('deceased')
DeceasedSlots ==
  {"deceased_name", "deceased_relationship", "deceased_name_morphology",
   "deceased_name_dependency"}
\* the slots k of the extractors with k.startswith('dedicator')
DedicatorSlots ==
  {"dedicator", "dedicator_relationship", "dedicator_morphology",
   "dedicator_dependency", "dedicator_1", "dedicator_1_relationship",
   "dedicator_2", "dedicator_2_relationship"}
\* the slots k of the extractors with 'dedicator_1' in k or 'dedicator_2' in k
MultipleDedicatorSlots ==
  {"dedicator_1", "dedicator_1_relationship", "dedicator_2",
   "dedicator_2_relationship"}

_needs_morphologyAlways(entities) == TRUE
_needs_morphology(entities) ==
  LET has_deceased == DOMAIN entities \cap DeceasedSlots # {}
      has_dedicator == DOMAIN entities \cap DedicatorSlots # {}
      entity_count == Cardinality(DOMAIN entities)
  IN ~has_deceased \/ ~has_dedicator \/ entity_count < 3

_needs_dependencies(entities) ==
  LET has_multiple_dedicators == DOMAIN entities \cap MultipleDedicatorSlots # {}
  IN has_multiple_dedicators \/ Cardinality(DOMAIN entities) > 8

FilterNothing(entities, min_confidence) == entities
_filter_by_confidence(entities, min_confidence) ==
  [key \in {k \in DOMAIN entities : Conf(entities[k]) >= min_confidence} |->
     entities[key]]

entity_groups ==
  <<
    <<"deceased_name", "deceased_name_morphology", "deceased_name_dependency">>,
    <<"dedicator", "dedicator_morphology", "dedicator_dependency">>,
    <<"relationship", "relationship_morphology", "relationship_dependency",
      "deceased_relationship">>,
    <<"location", "location_morphology">>
  >>

\* [key for key in group if key in entities]
Found(grp, entities) == SelectSeq(grp, LAMBDA key : key \in DOMAIN entities)

\* min(0.98, current_conf + 0.05 * (len(found) - 1))
BoostedUncapped(current_conf, n) == current_conf + 5 * (n - 1)
BoostedMax(current_conf, n) ==
  IF 98 > current_conf + 5 * (n - 1) THEN 98 ELSE current_conf + 5 * (n - 1)
Boosted(current_conf, n) ==
  IF 98 < current_conf + 5 * (n - 1) THEN 98 ELSE current_conf + 5 * (n - 1)

\* a consolidation that takes the first variant found, whatever its confidence
ConsolidatedFirstFound(grp, entities) ==
  LET found == Found(grp, entities)
      confidence_sources ==
        [i \in 1..Len(found) |->
           [source |-> found[i],
            confidence |-> entities[found[i]].confidence,
            value |-> entities[found[i]].value]]
      base == With(entities[found[1]], "confidence_sources",
                   confidence_sources)
      values == {entities[found[i]].value : i \in 1..Len(found)}
  IN IF Len(found) > 1
     THEN IF Cardinality(values) = 1
          THEN With(With(base, "confidence",
                         Boosted(base.confidence, Len(found))),
                    "agreement", "high")
          ELSE With(base, "agreement", "low")
     ELSE base

\* consolidated[base_name] for a group of which some slot is in entities
Consolidated(grp, entities) ==
  LET found == Found(grp, entities)
      \* max(found, key=confidence): the first of the most confident
      best == CHOOSE i \in 1..Len(found) :
                /\ \A j \in 1..Len(found) :
                     Conf(entities[found[j]]) <= Conf(entities[found[i]])
                /\ \A j \in 1..(i - 1) :
                     Conf(entities[found[j]]) < Conf(entities[found[i]])
      confidence_sources ==
        [i \in 1..Len(found) |->
           [source |-> found[i],
            confidence |-> entities[found[i]].confidence,
            value |-> entities[found[i]].value]]
      base == With(entities[found[best]], "confidence_sources",
                   confidence_sources)
      values == {entities[found[i]].value : i \in 1..Len(found)}
  IN IF Len(found) > 1
     THEN IF Cardinality(values) = 1
          THEN With(With(base, "confidence",
                         Boosted(base.confidence, Len(found))),
                    "agreement", "high")
          ELSE With(base, "agreement", "low")
     ELSE base

Range(s) == {s[i] : i \in 1..Len(s)}

_consolidate_entities(entities) ==
  LET groups == {g \in 1..Len(entity_groups) :
                   Found(entity_groups[g], entities) # << >>}
      processed_groups == UNION {Range(entity_groups[g]) : g \in groups}
      base_names == {entity_groups[g][1] : g \in groups}
  IN [key \in base_names \cup (DOMAIN entities \ processed_groups) |->
        IF key \in base_names
        THEN Consolidated(
               entity_groups[CHOOSE g \in groups : entity_groups[g][1] = key],
               entities)
        ELSE entities[key]]

\* _ensure_initialized of a backend: "ok", or the exception it raises
_ensure_initialized(backend, lib) ==
  IF backend._initialized \/ lib = "available" THEN "ok"
  ELSE IF lib = "missing" THEN "ImportError"
  ELSE "RuntimeError"

\* the singleton of a backend once a parser has asked for it and run it
Loaded(backend, lib) ==
  [defined |-> TRUE, _initialized |-> backend._initialized \/ lib = "available"]

\* Phase 2 on the accumulator entities: every way it can end
Phase2(self, backend, lib, t, analyses, verbose, entities) ==
  IF ~(self.use_morphology /\ _needs_morphology(entities))
  THEN {[ran |-> FALSE, exception |-> "none", analysis |-> NotAsked,
         found |-> NoEntities, entities |-> entities, backend |-> backend,
         analyzer |-> self._morphology_analyzer]}
  ELSE IF _ensure_initialized(backend, lib) # "ok"
  THEN {[ran |-> FALSE, exception |-> _ensure_initialized(backend, lib),
         analysis |-> NotAsked, found |-> NoEntities, entities |-> entities,
         backend |-> Loaded(backend, lib), analyzer |-> TRUE]}
  ELSE {[ran |-> TRUE, exception |-> "none", analysis |-> a,
         found |-> extract_entities_by_morphology(a, t),
         entities |-> _merge_entities(entities,
                                      extract_entities_by_morphology(a, t),
                                      TRUE, verbose, "morphology"),
         backend |-> Loaded(backend, lib), analyzer |-> TRUE] :
          a \in analyses}

\* Phase 3 on the accumulator entities: every way it can end
Phase3(self, backend, lib, t, analyses, verbose, entities) ==
  IF ~(self.use_dependencies /\ _needs_dependencies(entities))
  THEN {[ran |-> FALSE, exception |-> "none", analysis |-> NotAsked,
         found |-> NoEntities, entities |-> entities, backend |-> backend,
         analyzer |-> self._dependency_parser]}
  ELSE IF _ensure_initialized(backend, lib) # "ok"
  THEN {[ran |-> FALSE, exception |-> _ensure_initialized(backend, lib),
         analysis |-> NotAsked, found |-> NoEntities, entities |-> entities,
         backend |-> Loaded(backend, lib), analyzer |-> TRUE]}
  ELSE {[ran |-> TRUE, exception |-> "none", analysis |-> a,
         found |-> extract_entities_by_dependencies(a, t),
         entities |-> _merge_entities(entities,
                                      extract_entities_by_dependencies(a, t),
                                      TRUE, verbose, "dependencies"),
         backend |-> Loaded(backend, lib), analyzer |-> TRUE] :
          a \in analyses}

\* the accumulator after Phase 0 and Phase 1
Phase01(pattern_entities, grammar_entities, verbose) ==
  _merge_entities(
    Update(NoEntities,
           IF verbose THEN WithPhase(pattern_entities, "pattern_matching")
           ELSE pattern_entities),
    grammar_entities, TRUE, verbose, "grammar_templates")

(***************************************************************************)
(* One parser in a fresh process, and one call of extract_entities.        *)
(***************************************************************************)
HybridPhrases ==
  {
    <<"D"," ","M">>,
    <<"V","I","B","I","A","E"," ","S","A","B","I","N","A","E"," ","F","I","L","I","A","E">>,
    <<"V","I","B","I","U","S"," ","P","A","U","L","U","S"," ","P","A","T","E","R"," ","F","E","C","I","T">>,
    <<"C","."," ","I","U","L","I","U","S"," ","M","A","X","I","M","U","S"," ","V","I","X"," ","A","N"," ","X","X"," ","M","I","L"," ","R","O","M","A","E"," ","P","A","L","A","T","I","N","A"," ","E","T"," ","R","U","F","U","S">>,
    <<"M","A","R","C","I"," ","F","I","L","I","U","S">>,
    <<"x","y","z">>
  }

MaxHybridPhrases == 2

HybridTexts ==
  {<< >>} \cup
  UNION { { JoinWords(ws) : ws \in [1..n -> HybridPhrases] } :
          n \in 1..MaxHybridPhrases }

\* each text with what a call computes from the text alone: the entities of
\* Phase 0 and Phase 1, and the answers the backend can give for it
HybridCalls ==
  {[text |-> t,
    pattern_entities |-> _extract_entities_stub(t),
    grammar_entities |-> extract_with_grammar_templates(t),
    analyses |-> Analyses(t)] : t \in HybridTexts}

\* the thresholds a caller passes: the default, and one that drops entities
MinConfidences == {50, 86}

NoBackend == [defined |-> FALSE, _initialized |-> FALSE]

InitHybrid ==
  /\ hy_call \in HybridCalls
  /\ hy_pc = "ready"
  /\ hy_parser \in [use_morphology : BOOLEAN, use_dependencies : BOOLEAN,
                    min_confidence : MinConfidences,
                    _morphology_analyzer : {FALSE},
                    _dependency_parser : {FALSE}]
  /\ _MORPHOLOGY_ANALYZER = NoBackend
  /\ _DEPENDENCY_PARSER = NoBackend
  /\ cltk \in {"available", "missing", "broken"}
  /\ hy_text = << >>
  /\ hy_verbose = FALSE
  /\ hy_analyses = << >>
  /\ hy_phases = << >>
  /\ hy_result = << >>
  /\ hy_exception = "none"
  /\ SpacingIdle /\ ReconcileIdle /\ PatternIdle /\ MergeIdle /\ ConsolidateIdle
  /\ NewIdle

\* parser.extract_entities(t, verbose)
ExtractEntities ==
  /\ hy_pc = "ready"
  /\ \E call \in {hy_call} :
     \E t \in {call.text} :
     \E pattern_entities \in {call.pattern_entities} :
     \E grammar_entities \in {call.grammar_entities} :
     \E verbose \in BOOLEAN :
     \E p2 \in Phase2(hy_parser, _MORPHOLOGY_ANALYZER, cltk, t, call.analyses,
                      verbose,
                      Phase01(pattern_entities, grammar_entities, verbose)) :
     \E p3 \in IF p2.exception # "none"
               THEN {[ran |-> FALSE, exception |-> "none", analysis |-> NotAsked,
                      found |-> NoEntities, entities |-> p2.entities,
                      backend |-> _DEPENDENCY_PARSER,
                      analyzer |-> hy_parser._dependency_parser]}
               ELSE Phase3(hy_parser, _DEPENDENCY_PARSER, cltk, t,
                           call.analyses, verbose, p2.entities) :
       LET exception == IF p2.exception # "none" THEN p2.exception
                        ELSE p3.exception
       IN /\ hy_text' = t
          /\ hy_verbose' = verbose
          /\ hy_parser' = [hy_parser EXCEPT
                             !._morphology_analyzer = p2.analyzer,
                             !._dependency_parser = p3.analyzer]
          /\ _MORPHOLOGY_ANALYZER' = p2.backend
          /\ _DEPENDENCY_PARSER' = p3.backend
          /\ hy_analyses' = [morphology |-> p2.analysis,
                             dependencies |-> p3.analysis]
          /\ hy_phases' =
               (IF p3.ran THEN "dependencies" :> p3.found ELSE NoEntities)
               @@ (IF p2.ran THEN "morphology" :> p2.found ELSE NoEntities)
               @@ ("pattern_matching" :> pattern_entities)
               @@ ("grammar_templates" :> grammar_entities)
          /\ hy_exception' = exception
          /\ hy_pc' = IF exception = "none" THEN "returned" ELSE "raised"
          /\ hy_result' =
               IF exception = "none"
               THEN _consolidate_entities(
                      _filter_by_confidence(p3.entities,
                                            hy_parser.min_confidence))
               ELSE << >>
  /\ UNCHANGED <<cltk, hy_call>>
  /\ UNCHANGED <<sp_vars, rc_vars, pt_vars, mg_vars, cs_vars, nw_vars>>

NextHybrid == ExtractEntities

SpecHybrid == InitHybrid /\ [][NextHybrid]_vars

(***************************************************************************)
(* _merge_entities on its own: two small mappings that share slots.        *)
(***************************************************************************)
MergeSlots == {"dedicator", "location"}
MergeValues == {<<"a">>, <<"b">>}
MergeConfidences == {75, 85}

\* the mappings over some of the slots
MappingsOver(slots, entities) ==
  UNION {[present -> entities] : present \in SUBSET slots}

MergeMappings ==
  MappingsOver(MergeSlots, [value : MergeValues, confidence : MergeConfidences])

InitMerge ==
  /\ mg_pc = "ready"
  /\ mg_existing \in MergeMappings
  /\ mg_new \in MergeMappings
  /\ mg_verbose \in BOOLEAN
  /\ mg_phase_name \in {"morphology", ""}
  /\ mg_merged = << >>
  /\ SpacingIdle /\ ReconcileIdle /\ PatternIdle /\ HybridIdle /\ ConsolidateIdle
  /\ NewIdle

\* parser._merge_entities(existing, new, True, verbose, phase_name)
MergeEntities ==
  /\ mg_pc = "ready"
  /\ mg_merged' = _merge_entities(mg_existing, mg_new, TRUE, mg_verbose,
                                  mg_phase_name)
  /\ mg_pc' = "done"
  /\ UNCHANGED <<mg_existing, mg_new, mg_verbose, mg_phase_name>>
  /\ UNCHANGED <<sp_vars, rc_vars, pt_vars, hy_vars, cs_vars, nw_vars>>

NextMerge == MergeEntities

SpecMerge == InitMerge /\ [][NextMerge]_vars

(***************************************************************************)
(* _consolidate_entities on its own: the variants of one family with       *)
(* confidences over the whole of [0, 1], next to a slot of no family.      *)
(***************************************************************************)
ConsolidateValues == {<<"a">>, <<"b">>}
ConsolidateConfidences == {0, 90, 94, 98, 99, 100}

ConsolidateMappings ==
  { variants @@ other :
      variants \in MappingsOver(
                     Range(entity_groups[1]),
                     [value : ConsolidateValues,
                      confidence : ConsolidateConfidences]),
      other \in MappingsOver({"status"},
                             {[value |-> <<"a">>, confidence |-> 95]}) }

InitConsolidate ==
  /\ cs_pc = "ready"
  /\ cs_entities \in ConsolidateMappings
  /\ cs_consolidated = << >>
  /\ SpacingIdle /\ ReconcileIdle /\ PatternIdle /\ HybridIdle /\ MergeIdle
  /\ NewIdle

\* parser._consolidate_entities(entities)
ConsolidateEntities ==
  /\ cs_pc = "ready"
  /\ cs_consolidated' = _consolidate_entities(cs_entities)
  /\ cs_pc' = "done"
  /\ UNCHANGED cs_entities
  /\ UNCHANGED <<sp_vars, rc_vars, pt_vars, hy_vars, mg_vars, nw_vars>>

NextConsolidate == ConsolidateEntities

SpecConsolidate == InitConsolidate /\ [][NextConsolidate]_vars

(***************************************************************************)
(* Claims about the hybrid orchestrator.                                   *)
(***************************************************************************)
\* C3: when the tagging backend is unavailable (the library is missing or
\* fails to initialize), extract_entities with the morphology or dependency
\* phase enabled never raises: the affected phase contributes nothing and the
\* call returns the entities of the remaining phases.
C3_BackendUnavailableNeverRaises ==
  (hy_pc \in {"returned", "raised"} /\ cltk # "available") =>
    /\ hy_pc = "returned"
    /\ DOMAIN hy_phases = {"pattern_matching", "grammar_templates"}
    /\ hy_result =
         _consolidate_entities(
           _filter_by_confidence(
             Phase01(hy_phases["pattern_matching"],
                     hy_phases["grammar_templates"], hy_verbose),
             hy_parser.min_confidence))

\* C4: in the result of extract_entities each semantic target has at most
\* one primary entity: of the slots that name one target (the families of
\* the consolidation pass; the kin relationship of the deceased is also what
\* the pattern extractor's slot 'relationships' names) at most one is a key
\* of the result, and the other candidates are listed in its
\* confidence_sources.
C4_OnePrimaryPerTarget ==
  hy_pc = "returned" =>
    \A g \in 1..Len(entity_groups) :
      LET family == Range(entity_groups[g])
                    \cup (IF entity_groups[g][1] = "relationship"
                          THEN {"relationships"} ELSE {})
      IN Cardinality(DOMAIN hy_result \cap family) <= 1

\* C6: every entity extract_entities returns has a confidence of at least
\* the parser's min_confidence, the entities whose confidence the
\* consolidation pass computed included.
C6_ResultAtLeastMinConfidence ==
  hy_pc = "returned" =>
    \A key \in DOMAIN hy_result :
      hy_result[key].confidence >= hy_parser.min_confidence

\* C6 witness: with the threshold 0.86 an entity of some phase was dropped
\* and the call returned an entity whose confidence consolidation boosted
C6_Witness ==
  /\ hy_pc = "returned"
  /\ hy_parser.min_confidence = 86
  /\ \E phase \in DOMAIN hy_phases : \E key \in DOMAIN hy_phases[phase] :
       hy_phases[phase][key].confidence < 86
  /\ \E key \in DOMAIN hy_result :
       /\ "agreement" \in DOMAIN hy_result[key]
       /\ hy_result[key].agreement = "high"

\* C8: every entity a phase produced (pattern, grammar templates,
\* morphology, dependencies) and every entity extract_entities returns after
\* merging and the consolidation boost has a confidence in [0, 1].
C8_ConfidenceInUnitInterval ==
  hy_pc \in {"returned", "raised"} =>
    /\ \A phase \in DOMAIN hy_phases : \A key \in DOMAIN hy_phases[phase] :
         /\ 0 <= hy_phases[phase][key].confidence
         /\ hy_phases[phase][key].confidence <= 100
    /\ hy_pc = "returned" =>
         \A key \in DOMAIN hy_result :
           /\ 0 <= hy_result[key].confidence
           /\ hy_result[key].confidence <= 100

\* C8 witness: all four phases ran and three agreeing variants were
\* consolidated into an entity whose boosted confidence is the cap
C8_Witness ==
  /\ hy_pc = "returned"
  /\ DOMAIN hy_phases = {"pattern_matching", "grammar_templates",
                         "morphology", "dependencies"}
  /\ \E key \in DOMAIN hy_result :
       /\ "agreement" \in DOMAIN hy_result[key]
       /\ hy_result[key].agreement = "high"
       /\ Len(hy_result[key].confidence_sources) = 3
       /\ hy_result[key].confidence = 98

(***************************************************************************)
(* Claims about _merge_entities.                                           *)
(***************************************************************************)
\* C7 as stated: when a candidate has exactly the confidence of the entity
\* the accumulator holds for its slot, the existing entity is kept and the
\* candidate's value is appended to its alternative_extraction.
C7_TieAlwaysRecorded ==
  mg_pc = "done" =>
    \A key \in DOMAIN mg_existing \cap DOMAIN mg_new :
      mg_new[key].confidence = mg_existing[key].confidence =>
        /\ mg_merged[key].value = mg_existing[key].value
        /\ mg_merged[key].confidence = mg_existing[key].confidence
        /\ "alternative_extraction" \in DOMAIN mg_merged[key]
        /\ mg_merged[key].alternative_extraction =
             << [value |-> mg_new[key].value, phase |-> mg_phase_name] >>

\* C7 amended: on a tie the existing entity is kept; when verbose is
\* requested the candidate's value is appended to its
\* alternative_extraction, and without verbose the accumulator's entity is
\* left as it was.
C7_TieRecordedWhenVerbose ==
  mg_pc = "done" =>
    \A key \in DOMAIN mg_existing \cap DOMAIN mg_new :
      mg_new[key].confidence = mg_existing[key].confidence =>
        /\ mg_merged[key].value = mg_existing[key].value
        /\ mg_merged[key].confidence = mg_existing[key].confidence
        /\ mg_verbose =>
             /\ "alternative_extraction" \in DOMAIN mg_merged[key]
             /\ mg_merged[key].alternative_extraction =
                  << [value |-> mg_new[key].value, phase |-> mg_phase_name] >>
        /\ ~mg_verbose => mg_merged[key] = mg_existing[key]

\* C7 witness: a verbose merge met a tie between different values and
\* recorded the candidate
C7_Witness ==
  /\ mg_pc = "done"
  /\ mg_verbose
  /\ \E key \in DOMAIN mg_existing \cap DOMAIN mg_new :
       /\ mg_new[key].confidence = mg_existing[key].confidence
       /\ mg_new[key].value # mg_existing[key].value
       /\ "alternative_extraction" \in DOMAIN mg_merged[key]

(***************************************************************************)
(* Claims about _consolidate_entities.                                     *)
(***************************************************************************)
\* C5 as stated: consolidating N >= 1 variants that agree on the value
\* gives a confidence that is at least the highest of theirs and at most
\* 0.98, for variant confidences anywhere in [0, 1].
C5_AgreeingBoostBounded ==
  cs_pc = "done" =>
    \A g \in 1..Len(entity_groups) :
      LET found == Range(entity_groups[g]) \cap DOMAIN cs_entities
      IN (found # {} /\ Cardinality({cs_entities[key].value : key \in found}) = 1)
         => /\ \A key \in found :
                 cs_consolidated[entity_groups[g][1]].confidence
                   >= cs_entities[key].confidence
            /\ cs_consolidated[entity_groups[g][1]].confidence <= 98

\* C5 amended: the same for variant confidences in [0, 0.98].
C5_AgreeingBoostBoundedUpToCap ==
  cs_pc = "done" =>
    \A g \in 1..Len(entity_groups) :
      LET found == Range(entity_groups[g]) \cap DOMAIN cs_entities
      IN (/\ found # {}
          /\ Cardinality({cs_entities[key].value : key \in found}) = 1
          /\ \A key \in found : cs_entities[key].confidence <= 98)
         => /\ \A key \in found :
                 cs_consolidated[entity_groups[g][1]].confidence
                   >= cs_entities[key].confidence
            /\ cs_consolidated[entity_groups[g][1]].confidence <= 98

\* C5 witness: three agreeing variants, the best at 0.94, were consolidated
\* to the cap
C5_Witness ==
  /\ cs_pc = "done"
  /\ Range(entity_groups[1]) \subseteq DOMAIN cs_entities
  /\ Cardinality({cs_entities[key].value : key \in Range(entity_groups[1])}) = 1
  /\ \A key \in Range(entity_groups[1]) : cs_entities[key].confidence <= 94
  /\ \E key \in Range(entity_groups[1]) : cs_entities[key].confidence = 94
  /\ cs_consolidated["deceased_name"].confidence = 98

(***************************************************************************)
(* Further claims about fix_single_annotation.                             *)
(***************************************************************************)
\* C12: for any annotation list, every formula span detected in the raw
\* transcription appears in the output exactly once, with the formula's
\* label, and the output holds no other annotation lying fully inside it.
C12_FormulaSpanSubsumption ==
  rc_pc \in {"once", "twice"} =>
    LET formulas == find_and_merge_formulas(transcription) IN
    \A f \in 1..Len(formulas) :
      /\ Cardinality({i \in 1..Len(final) : final[i] = formulas[f]}) = 1
      /\ \A i \in 1..Len(final) :
           (final[i][1] >= formulas[f][1] /\ final[i][2] <= formulas[f][2])
             => final[i] = formulas[f]

\* the same for the annotation lists that are not empty
C12_NonEmptyListSubsumption ==
  rc_annotations # << >> => C12_FormulaSpanSubsumption

\* "D M" with a word-level annotation on each letter: one formula annotation
C12_Scenario ==
  /\ rc_pc = "once"
  /\ transcription = <<"D", " ", "M">>
  /\ rc_annotations = << <<0, 1, "COGNOMEN">>, <<2, 3, "COGNOMEN">> >>
  /\ final = << <<0, 3, "DEDICATION_TO_THE_GODS">> >>

(***************************************************************************)
(* fix_single_annotation on transcriptions that state an age: the same two *)
(* calls as in SpecReconcile, over texts built from age words and numerals.*)
(***************************************************************************)
NumeralVocab ==
  { <<"v","i","x","i","t">>, <<"X">>, <<"L","X">>, <<"e","t">> }

NumeralTexts ==
  UNION { { JoinWords(ws) : ws \in [1..n -> NumeralVocab] } : n \in 1..MaxWords }

InitNumerals ==
  /\ rc_pc = "ready"
  /\ transcription \in NumeralTexts
  /\ rc_annotations = << >>
  /\ final = << >>
  /\ final_again = << >>
  /\ SpacingIdle
  /\ PatternIdle
  /\ HybridIdle
  /\ MergeIdle
  /\ ConsolidateIdle
  /\ NewIdle

SpecNumerals == InitNumerals /\ [][NextReconcile]_vars

\* a Roman numeral: a non-empty string of the numeral letters I V X L C D M
\* (roman_values also maps U, the parser's normalised V)
IsRomanNumeral(w) ==
  w # << >> /\ \A k \in 1..Len(w) : w[k] \in (DOMAIN roman_values) \ {"U"}

\* C13: in the output of fix_single_annotation, an annotation whose text is
\* a Roman numeral and which comes right after an annotation labelled
\* AGE_PREFIX is labelled AGE_YEARS; a Roman-numeral annotation that follows
\* no AGE_PREFIX annotation has the label it had in the input.
C13_RomanNumeralAfterAgePrefix ==
  rc_pc \in {"once", "twice"} =>
    \A i \in 1..Len(final) :
      IsRomanNumeral(extract_text(transcription, final[i][1], final[i][2])) =>
        IF i > 1 /\ final[i - 1][3] = "AGE_PREFIX"
        THEN final[i][3] = "AGE_YEARS"
        ELSE \E k \in 1..Len(rc_annotations) : rc_annotations[k] = final[i]

\* the same for the numerals written with the letters I, V and X only
C13_IVXNumeralAfterAgePrefix ==
  rc_pc \in {"once", "twice"} =>
    \A i \in 1..Len(final) :
      IsRomanIVX(extract_text(transcription, final[i][1], final[i][2])) =>
        IF i > 1 /\ final[i - 1][3] = "AGE_PREFIX"
        THEN final[i][3] = "AGE_YEARS"
        ELSE \E k \in 1..Len(rc_annotations) : rc_annotations[k] = final[i]

\* "vixit X": the numeral after the age word was relabelled
C13_Scenario ==
  /\ rc_pc = "once"
  /\ transcription = <<"v","i","x","i","t"," ","X">>
  /\ rc_annotations = << <<0, 5, "COGNOMEN">>, <<6, 7, "COGNOMEN">> >>
  /\ final = << <<0, 5, "AGE_PREFIX">>, <<6, 7, "AGE_YEARS">> >>

\* line 130: a span that is reversed, empty or out of range
MalformedSpan(a, n) == a[1] >= a[2] \/ a[1] < 0 \/ a[2] > n

\* C14: fix_single_annotation returns a list for input that holds reversed,
\* empty or out-of-range spans; none of them is in it, and every annotation
\* of the output satisfies 0 <= start < end <= len(transcription).
C14_MalformedSpansDropped ==
  rc_pc \in {"once", "twice"} =>
    /\ final \in Seq(Int \X Int \X STRING)
    /\ \A i \in 1..Len(final) :
         /\ 0 <= final[i][1]
         /\ final[i][1] < final[i][2]
         /\ final[i][2] <= Len(transcription)
    /\ \A k \in 1..Len(rc_annotations) :
         MalformedSpan(rc_annotations[k], Len(transcription))
           => \A i \in 1..Len(final) :
                <<final[i][1], final[i][2]>>
                  # <<rc_annotations[k][1], rc_annotations[k][2]>>

\* C14 witness: a reversed span was dropped and the annotation beside it kept
C14_Witness ==
  /\ rc_pc = "once"
  /\ Len(rc_annotations) = 2
  /\ rc_annotations[1][1] > rc_annotations[1][2]
  /\ ~MalformedSpan(rc_annotations[2], Len(transcription))
  /\ Len(final) = 1
  /\ final[1][1] = rc_annotations[2][1]
  /\ final[1][2] = rc_annotations[2][2]

(***************************************************************************)
(* The file writers: fix_file_with_annotation_adjustment                   *)
(* (src/fix_spacing_and_adjust_annotations.py) and fix_annotations_file    *)
(* (src/fix_annotations_v3.py), each on one line of its input file.  A     *)
(* record is the parsed line: its transcription and its annotations.       *)
(***************************************************************************)
MaxFileTokens == 2

\* the transcriptions of the input records: the empty one, and one or two
\* words of the spacing vocabulary
FileTexts ==
  {<< >>} \cup
  UNION { { JoinWords(ws) : ws \in [1..n -> SpacingVocab] } : n \in 1..MaxFileTokens }

FileAnnotations(t) == AnnotationLists(t)

InitFileWriters ==
  /\ fw_pc = "ready"
  /\ fw_writer = ""
  /\ \E t \in FileTexts : \E anns \in FileAnnotations(t) :
       fw_record = [transcription |-> t, annotations |-> anns]
  /\ fw_written = << >>
  /\ SpacingIdle /\ ReconcileIdle /\ PatternIdle /\ HybridIdle /\ MergeIdle
  /\ ConsolidateIdle /\ GrammarIdle /\ BackendsIdle /\ EdhIdle
  /\ LaterIdle

\* the record fix_file_with_annotation_adjustment writes for a record
\* (lines 172-193): the fixed text and the adjusted annotations only when the
\* transcription is not empty and a replacement was made, else the record as
\* it was read
SpacingWritten(record) ==
  LET original_text == record.transcription
      original_annotations == record.annotations
      fixed == ApplyFixes(original_text, << >>, 1)
      changes == fixed.adjustments
  IN IF original_text # << >> /\ changes # << >>
     THEN [transcription |-> fixed.current_text,
           annotations |-> AdjustAnnotations(original_annotations,
                                             fixed.adjustments,
                                             Len(fixed.current_text))]
     ELSE record

\* one line through fix_file_with_annotation_adjustment
FixFileWithAnnotationAdjustment ==
  /\ fw_pc = "ready"
  /\ fw_writer' = "fix_file_with_annotation_adjustment"
  /\ fw_written' = SpacingWritten(fw_record)
  /\ fw_pc' = "written"
  /\ UNCHANGED fw_record
  /\ UNCHANGED <<old_vars, lt_vars, gr_vars, bk_vars, ed_vars>>

\* the record fix_annotations_file writes for a record (lines 236-266):
\* fix_single_annotation unpacks every annotation into three names (line
\* 128), so a list with an annotation that is not a triple raises, and the
\* handler writes the line as it was read
AnnotationsWritten(record) ==
  LET original_annotations == record.annotations
  IN IF original_annotations = << >> THEN record
     ELSE IF \E k \in 1..Len(original_annotations) :
               Len(original_annotations[k]) # 3
     THEN record
     ELSE [transcription |-> record.transcription,
           annotations |-> fix_single_annotation(record.transcription,
                                                 original_annotations)]

\* one line through fix_annotations_file
FixAnnotationsFile ==
  /\ fw_pc = "ready"
  /\ fw_writer' = "fix_annotations_file"
  /\ fw_written' = AnnotationsWritten(fw_record)
  /\ fw_pc' = "written"
  /\ UNCHANGED fw_record
  /\ UNCHANGED <<old_vars, lt_vars, gr_vars, bk_vars, ed_vars>>

NextFileWriters == FixFileWithAnnotationAdjustment \/ FixAnnotationsFile

SpecFileWriters == InitFileWriters /\ [][NextFileWriters]_vars

WrittenAnnotationsValid ==
  \A i \in 1..Len(fw_written.annotations) :
    /\ Len(fw_written.annotations[i]) = 3
    /\ ValidSpan(fw_written.annotations[i][1], fw_written.annotations[i][2],
                 Len(fw_written.transcription))

\* C15: every record written by fix_file_with_annotation_adjustment and by
\* fix_annotations_file carries only annotations [start, end, label] with
\* 0 <= start < end <= len(transcription) of the transcription it is written
\* with.
C15_WrittenAnnotationsValid ==
  fw_pc = "written" => WrittenAnnotationsValid

\* the same for the records whose annotations are all triples, by writer
C15_AnnotationsFileValid ==
  (/\ fw_pc = "written"
   /\ fw_writer = "fix_annotations_file"
   /\ \A k \in 1..Len(fw_record.annotations) : Len(fw_record.annotations[k]) = 3)
    => WrittenAnnotationsValid

C15_RewrittenRecordValid ==
  (/\ fw_pc = "written"
   /\ fw_writer = "fix_file_with_annotation_adjustment"
   /\ fw_written.transcription # fw_record.transcription
   /\ \A k \in 1..Len(fw_record.annotations) : Len(fw_record.annotations[k]) = 3)
    => WrittenAnnotationsValid

(***************************************************************************)
(* extract_with_grammar_templates on its own, over dedications by two      *)
(* people: <name> <name> <relation> ET <name> <name> <relation> <verb>.    *)
(***************************************************************************)
FirstNames ==
  { <<"V","I","B","I","U","S">>, <<"P","A","U","L","U","S">>,
    <<"V","I","B","I","A">> }
SecondNames == { <<"P","A","U","L","U","S">>, <<"R","U","F","U","S">> }
OtherFirstNames == { <<"V","I","B","I","A">>, <<"R","U","F","U","S">> }
OtherSecondNames == { <<"T","E","R","T","U","L","L","A">> }
Relations == { <<"P","A","T","E","R">>, <<"M","A","T","E","R">> }
Verbs ==
  { <<"F","E","C","E","R","U","N","T">>, <<"F","E","C","E","R","V","N","T">>,
    <<"F","E","C","I","T">> }

DedicationBy(n1, n2, r1, n3, n4, r2, verb) ==
  JoinWords(<<n1, n2, r1, <<"E","T">>, n3, n4, r2, verb>>)

GrammarTexts ==
  { DedicationBy(n1, n2, r1, n3, n4, r2, verb) :
      n1 \in FirstNames, n2 \in SecondNames, r1 \in Relations,
      n3 \in OtherFirstNames, n4 \in OtherSecondNames, r2 \in Relations,
      verb \in Verbs }

InitGrammar ==
  /\ gr_pc = "ready"
  /\ gr_text \in GrammarTexts
  /\ gr_entities = << >>
  /\ SpacingIdle /\ ReconcileIdle /\ PatternIdle /\ HybridIdle /\ MergeIdle
  /\ ConsolidateIdle /\ FileWritersIdle /\ BackendsIdle /\ EdhIdle
  /\ LaterIdle

\* one call of extract_with_grammar_templates(text)
ExtractWithGrammarTemplates ==
  /\ gr_pc = "ready"
  /\ gr_entities' = extract_with_grammar_templates(gr_text)
  /\ gr_pc' = "done"
  /\ UNCHANGED gr_text
  /\ UNCHANGED <<old_vars, lt_vars, fw_vars, bk_vars, ed_vars>>

NextGrammar == ExtractWithGrammarTemplates

SpecGrammar == InitGrammar /\ [][NextGrammar]_vars

EndsInUS(w) == Len(w) > 2 /\ SubSeq(w, Len(w) - 1, Len(w)) = <<"U","S">>

\* the texts of the form the claim names: the first two names end in -US
\* and the verb is FECERUNT
MultipleDedicatorTexts ==
  { DedicationBy(n1, n2, r1, n3, n4, r2, <<"F","E","C","E","R","U","N","T">>) :
      n1 \in {n \in FirstNames : EndsInUS(n)}, n2 \in SecondNames,
      r1 \in Relations, n3 \in OtherFirstNames, n4 \in OtherSecondNames,
      r2 \in Relations }

MultipleDedicatorSlotsAll ==
  {"dedicator_1", "dedicator_1_relationship", "dedicator_2",
   "dedicator_2_relationship", "multiple_dedicators"}

\* C16: for a text '<name> <name> <relation> ET <name> <name> <relation>
\* FECERUNT' whose first two names end in -US, extract_with_grammar_templates
\* returns the slots dedicator_1 and dedicator_2, their relationship slots
\* and multiple_dedicators.
C16_MultipleDedicatorsExtracted ==
  (gr_pc = "done" /\ gr_text \in MultipleDedicatorTexts)
    => MultipleDedicatorSlotsAll \subseteq DOMAIN gr_entities

\* what the code does instead: no text reaches the multi-dedicator slots
C16_MultipleDedicatorsNeverExtracted ==
  gr_pc = "done" => MultipleDedicatorSlotsAll \cap DOMAIN gr_entities = {}

(***************************************************************************)
(* The tagging backends over the lifetime of one process                   *)
(* (src/latinepi/morphology.py, dependency.py, hybrid_parser.py): any      *)
(* number of HybridLatinParser instances, any sequence of extraction       *)
(* calls.  Objects live in bk_objects and are known by their index; 0 is   *)
(* None, and for a module global: the name is not in globals().  What the  *)
(* texts are does not matter here: whether a phase is needed, and how the  *)
(* loading of the cltk pipeline ends, are inputs of a call.                *)
(***************************************************************************)
MaxParsers == 2
MaxCalls == 3

\* how NLP(language="lat") ends inside _ensure_initialized
NlpOutcomes == {"loaded", "ImportError", "RuntimeError"}

\* LatinMorphologyAnalyzer.__init__ / LatinDependencyParser.__init__
NewBackend(class) == [class |-> class, _nlp |-> 0, _initialized |-> FALSE]

\* a module singleton getter: the heap and the global after the call; the
\* global is the instance the call returns
GetSingleton(objects, g, class) ==
  IF g = 0
  THEN [objects |-> Append(objects, NewBackend(class)), global |-> Len(objects) + 1]
  ELSE [objects |-> objects, global |-> g]

\* a getter that makes a new analyzer on every call
get_morphology_analyzerAlwaysNew(objects, g) ==
  [objects |-> Append(objects, NewBackend("LatinMorphologyAnalyzer")),
   global |-> Len(objects) + 1]

get_morphology_analyzer(objects, g) ==
  GetSingleton(objects, g, "LatinMorphologyAnalyzer")

get_dependency_parser(objects, g) ==
  GetSingleton(objects, g, "LatinDependencyParser")

\* backend._ensure_initialized() on the object k: _nlp becomes the pipeline
\* loaded now (pipelines are numbered in the order they are loaded)
EnsureInitialized(objects, loads, k, outcome) ==
  IF objects[k]._initialized
  THEN [objects |-> objects, loads |-> loads, exception |-> "none"]
  ELSE IF outcome = "loaded"
  THEN [objects |-> [objects EXCEPT ![k]._nlp = Len(loads) + 1,
                                    ![k]._initialized = TRUE],
        loads |-> Append(loads, k), exception |-> "none"]
  ELSE [objects |-> objects, loads |-> loads, exception |-> outcome]

\* the process: the heap, the two module globals, the parsers, and the
\* record of what the getters returned and of the pipelines loaded
Process ==
  [objects |-> bk_objects, morphology |-> bk_MORPHOLOGY_ANALYZER,
   dependency |-> bk_DEPENDENCY_PARSER, parsers |-> bk_parsers,
   returned |-> bk_returned, loads |-> bk_loads]

\* Phase 2 of extract_entities on the parser p: _get_morphology_analyzer and
\* then analyzer.extract_entities_by_morphology, which starts with
\* _ensure_initialized
MorphologyPhase(h, p, needed, outcome) ==
  IF ~(h.parsers[p].use_morphology /\ needed)
  THEN [h |-> h, exception |-> "none"]
  ELSE
    LET Run2(asked, got) ==
          LET Init2(analyzer, init) ==
                [h |-> [objects |-> init.objects,
                        morphology |-> got.global,
                        dependency |-> h.dependency,
                        parsers |-> [h.parsers EXCEPT
                                       ![p]._morphology_analyzer = analyzer],
                        returned |-> IF asked
                                     THEN h.returned \cup {<<"morphology", analyzer>>}
                                     ELSE h.returned,
                        loads |-> init.loads],
                 exception |-> init.exception]
              With2(analyzer) ==
                Init2(analyzer,
                      EnsureInitialized(got.objects, h.loads, analyzer, outcome))
          IN With2(IF asked THEN got.global
                   ELSE h.parsers[p]._morphology_analyzer)
        Get2(asked) ==
          Run2(asked,
               IF asked THEN get_morphology_analyzer(h.objects, h.morphology)
               ELSE [objects |-> h.objects, global |-> h.morphology])
    IN Get2(h.parsers[p]._morphology_analyzer = 0)

\* Phase 3 of extract_entities on the parser p
DependencyPhase(h, p, needed, outcome) ==
  IF ~(h.parsers[p].use_dependencies /\ needed)
  THEN [h |-> h, exception |-> "none"]
  ELSE
    LET Run3(asked, got) ==
          LET Init3(parser, init) ==
                [h |-> [objects |-> init.objects,
                        morphology |-> h.morphology,
                        dependency |-> got.global,
                        parsers |-> [h.parsers EXCEPT
                                       ![p]._dependency_parser = parser],
                        returned |-> IF asked
                                     THEN h.returned \cup {<<"dependency", parser>>}
                                     ELSE h.returned,
                        loads |-> init.loads],
                 exception |-> init.exception]
              With3(parser) ==
                Init3(parser,
                      EnsureInitialized(got.objects, h.loads, parser, outcome))
          IN With3(IF asked THEN got.global
                   ELSE h.parsers[p]._dependency_parser)
        Get3(asked) ==
          Run3(asked,
               IF asked THEN get_dependency_parser(h.objects, h.dependency)
               ELSE [objects |-> h.objects, global |-> h.dependency])
    IN Get3(h.parsers[p]._dependency_parser = 0)

\* HybridLatinParser.__init__
NewParserObject(use_morphology, use_dependencies) ==
  [use_morphology |-> use_morphology, use_dependencies |-> use_dependencies,
   _morphology_analyzer |-> 0, _dependency_parser |-> 0]

\* parser.extract_entities on the parser p of the process h: Phase 3 runs
\* only if Phase 2 raised nothing
ExtractOn(h, p, needs_morphology, needs_dependencies, m_outcome, d_outcome) ==
  LET After2(p2) ==
        IF p2.exception # "none" THEN p2.h
        ELSE DependencyPhase(p2.h, p, needs_dependencies, d_outcome).h
  IN After2(MorphologyPhase(h, p, needs_morphology, m_outcome))

InitBackends ==
  /\ BackendsIdle
  /\ SpacingIdle /\ ReconcileIdle /\ PatternIdle /\ HybridIdle /\ MergeIdle
  /\ ConsolidateIdle /\ FileWritersIdle /\ GrammarIdle /\ EdhIdle
  /\ LaterIdle

SetProcess(h) ==
  /\ bk_objects' = h.objects
  /\ bk_MORPHOLOGY_ANALYZER' = h.morphology
  /\ bk_DEPENDENCY_PARSER' = h.dependency
  /\ bk_parsers' = h.parsers
  /\ bk_returned' = h.returned
  /\ bk_loads' = h.loads

\* HybridLatinParser(use_morphology, use_dependencies, min_confidence)
NewHybridLatinParser ==
  /\ Len(bk_parsers) < MaxParsers
  /\ \E use_morphology \in BOOLEAN, use_dependencies \in BOOLEAN :
       bk_parsers' = Append(bk_parsers,
                            NewParserObject(use_morphology, use_dependencies))
  /\ UNCHANGED <<bk_objects, bk_MORPHOLOGY_ANALYZER, bk_DEPENDENCY_PARSER,
                 bk_calls, bk_returned, bk_loads>>
  /\ UNCHANGED <<old_vars, lt_vars, fw_vars, gr_vars, ed_vars>>

\* parser.extract_entities(text, verbose) on an existing parser
ExtractEntitiesCall ==
  /\ bk_calls < MaxCalls
  /\ \E p \in 1..Len(bk_parsers) :
     \E needs_morphology \in BOOLEAN, needs_dependencies \in BOOLEAN :
     \E m_outcome \in NlpOutcomes, d_outcome \in NlpOutcomes :
       SetProcess(ExtractOn(Process, p, needs_morphology, needs_dependencies,
                            m_outcome, d_outcome))
  /\ bk_calls' = bk_calls + 1
  /\ UNCHANGED <<old_vars, lt_vars, fw_vars, gr_vars, ed_vars>>

\* extract_entities_hybrid(text, ...): a parser of its own for one call
ExtractEntitiesHybrid ==
  /\ bk_calls < MaxCalls
  /\ Len(bk_parsers) < MaxParsers
  /\ \E use_morphology \in BOOLEAN, use_dependencies \in BOOLEAN :
     \E needs_morphology \in BOOLEAN, needs_dependencies \in BOOLEAN :
     \E m_outcome \in NlpOutcomes, d_outcome \in NlpOutcomes :
       SetProcess(ExtractOn(
         [Process EXCEPT
            !.parsers = Append(@, NewParserObject(use_morphology,
                                                  use_dependencies))],
         Len(bk_parsers) + 1, needs_morphology, needs_dependencies,
         m_outcome, d_outcome))
  /\ bk_calls' = bk_calls + 1
  /\ UNCHANGED <<old_vars, lt_vars, fw_vars, gr_vars, ed_vars>>

NextBackends ==
  \/ NewHybridLatinParser
  \/ ExtractEntitiesCall
  \/ ExtractEntitiesHybrid

SpecBackends == InitBackends /\ [][NextBackends]_vars

\* the pipelines loaded into objects of a class
LoadsOf(class) ==
  {i \in 1..Len(bk_loads) : bk_objects[bk_loads[i]].class = class}

BackendClasses == {"LatinMorphologyAnalyzer", "LatinDependencyParser"}

\* C17: over any sequence of extraction calls on any number of parsers the
\* getters of a backend have always returned one and the same instance, and
\* the pipeline of each backend has been loaded at most once (an initialized
\* backend is never initialized again).
C17_BackendsInitializedOnce ==
  /\ \A r1 \in bk_returned, r2 \in bk_returned : r1[1] = r2[1] => r1[2] = r2[2]
  /\ \A class \in BackendClasses : Cardinality(LoadsOf(class)) <= 1

\* two parsers have each asked for the morphology analyzer, and it is loaded
C17_Witness ==
  /\ \E p \in 1..Len(bk_parsers), q \in 1..Len(bk_parsers) :
       /\ p # q
       /\ bk_parsers[p]._morphology_analyzer # 0
       /\ bk_parsers[q]._morphology_analyzer # 0
  /\ LoadsOf("LatinMorphologyAnalyzer") # {}
  /\ bk_calls = MaxCalls

(***************************************************************************)
(* search_edh_inscriptions (src/latinepi/edh_utils.py): the paginated      *)
(* search and the download of what it collected.  Inscriptions are         *)
(* counted, not told apart: all_items and saved_files are the lengths of   *)
(* the lists of those names.  What the server answers to a request (the    *)
(* number of items of the page, its total, or a failure) is an input of    *)
(* each step.                                                              *)
(***************************************************************************)
page_size == 20
\* the largest max_results a call is made with
MaxResultsLimit == 45
\* the most requests one call makes
MaxRequests == 6

\* data.get('total', 0) of a page
EdhTotals == {0, 30, 1000}

\* len(data.get('items', [])) of a page
PageItems == {0, 1, 7, page_size}

\* what requests.get(...) followed by raise_for_status() and json() gives:
\* a page, or a RequestException
PageResponses ==
  {[failed |-> TRUE, items |-> 0, total |-> 0]}
  \cup [failed : {FALSE}, items : PageItems, total : EdhTotals]

InitEdh ==
  /\ ed_pc = "searching"
  /\ max_results \in 0..MaxResultsLimit
  /\ all_items = 0
  /\ offset = 0
  /\ saved_files = 0
  /\ ed_requests = 0
  /\ SpacingIdle /\ ReconcileIdle /\ PatternIdle /\ HybridIdle /\ MergeIdle
  /\ ConsolidateIdle /\ FileWritersIdle /\ GrammarIdle /\ BackendsIdle
  /\ LaterIdle

\* one iteration of the loop "while len(all_items) < max_results", with the
\* retry of its except block: the locals after it, and whether it left the
\* loop with break
SearchIteration(items_held, at, limit, response, retry) ==
  IF ~response.failed
  THEN IF response.items = 0
       THEN [all_items |-> items_held, offset |-> at, break |-> TRUE,
             requests |-> 1]
       ELSE IF items_held + response.items >= limit
       THEN \* all_items = all_items[:max_results]
            [all_items |-> limit, offset |-> at + page_size, break |-> TRUE,
             requests |-> 1]
       ELSE [all_items |-> items_held + response.items,
             offset |-> at + page_size,
             break |-> items_held + response.items >= response.total,
             requests |-> 1]
  ELSE IF ~retry.failed
  THEN \* the retry: extend and advance, nothing else
       [all_items |-> items_held + retry.items, offset |-> at + page_size,
        break |-> FALSE, requests |-> 2]
  ELSE [all_items |-> items_held, offset |-> at, break |-> TRUE,
        requests |-> 2]

SearchPage ==
  /\ ed_pc = "searching"
  /\ all_items < max_results
  /\ ed_requests + 2 <= MaxRequests
  /\ \E response \in PageResponses :
     \E retry \in IF response.failed THEN PageResponses ELSE {response} :
       \E after \in {SearchIteration(all_items, offset, max_results,
                                     response, retry)} :
         /\ all_items' = after.all_items
         /\ offset' = after.offset
         /\ ed_requests' = ed_requests + after.requests
         /\ ed_pc' = IF after.break THEN "found" ELSE "searching"
  /\ UNCHANGED <<max_results, saved_files>>
  /\ UNCHANGED <<old_vars, lt_vars, fw_vars, gr_vars, bk_vars>>

\* the loop condition is false
LeaveSearchLoop ==
  /\ ed_pc = "searching"
  /\ ~(all_items < max_results)
  /\ ed_pc' = "found"
  /\ UNCHANGED <<max_results, all_items, offset, saved_files, ed_requests>>
  /\ UNCHANGED <<old_vars, lt_vars, fw_vars, gr_vars, bk_vars>>

\* the rest of the call: [] when nothing was found, else save_inscription
\* on every item of all_items; each gives a path or None
DownloadAll ==
  /\ ed_pc = "found"
  /\ \E saved \in 0..all_items : saved_files' = saved
  /\ ed_pc' = "returned"
  /\ UNCHANGED <<max_results, all_items, offset, ed_requests>>
  /\ UNCHANGED <<old_vars, lt_vars, fw_vars, gr_vars, bk_vars>>

NextEdh ==
  \/ SearchPage
  \/ LeaveSearchLoop
  \/ DownloadAll

SpecEdh == InitEdh /\ [][NextEdh]_vars

\* C18: search_edh_inscriptions never holds, saves or returns more than
\* max_results inscriptions, whatever the pages and the request failures.
C18_NeverMoreThanMaxResults ==
  ed_pc \in {"searching", "found", "returned"} =>
    /\ all_items <= max_results
    /\ saved_files <= max_results

\* what the code keeps: one page more than max_results at most, and never
\* more saved than collected
C18_AtMostOnePageOver ==
  ed_pc \in {"searching", "found", "returned"} =>
    /\ all_items < max_results + page_size
    /\ saved_files <= all_items

\* the slot key of the merged mapping holds the entity e: its value and its
\* confidence
HoldsEntity(key, e) ==
  /\ mg_merged[key].value = e.value
  /\ mg_merged[key].confidence = e.confidence

\* C19: after _merge_entities the result has every slot of either side; a
\* slot of both sides holds the candidate if and only if the candidate's
\* confidence is strictly higher, and the existing entity otherwise (in
\* verbose mode the candidate carries the phase's name, the existing entity
\* does not); so no slot disappears and no slot's confidence decreases.
C19_MergeKeepsHigherConfidence ==
  mg_pc = "done" =>
    /\ DOMAIN mg_merged = DOMAIN mg_existing \cup DOMAIN mg_new
    /\ \A key \in DOMAIN mg_existing \ DOMAIN mg_new :
         mg_merged[key] = mg_existing[key]
    /\ \A key \in DOMAIN mg_new \ DOMAIN mg_existing :
         HoldsEntity(key, mg_new[key])
    /\ \A key \in DOMAIN mg_existing \cap DOMAIN mg_new :
         /\ IF mg_new[key].confidence > mg_existing[key].confidence
            THEN HoldsEntity(key, mg_new[key])
            ELSE HoldsEntity(key, mg_existing[key])
         /\ (mg_verbose /\ mg_phase_name # "") =>
              (("extraction_phase" \in DOMAIN mg_merged[key])
                 <=> mg_new[key].confidence > mg_existing[key].confidence)
    /\ \A key \in DOMAIN mg_existing :
         /\ key \in DOMAIN mg_merged
         /\ mg_merged[key].confidence >= mg_existing[key].confidence

\* both sides hold both slots with other values; the candidate is more
\* confident for one slot and less confident for the other
C19_Witness ==
  /\ mg_pc = "done"
  /\ \E k1 \in DOMAIN mg_existing \cap DOMAIN mg_new :
     \E k2 \in DOMAIN mg_existing \cap DOMAIN mg_new :
       /\ mg_new[k1].confidence > mg_existing[k1].confidence
       /\ mg_new[k1].value # mg_existing[k1].value
       /\ mg_merged[k1].value = mg_new[k1].value
       /\ mg_new[k2].confidence < mg_existing[k2].confidence
       /\ mg_new[k2].value # mg_existing[k2].value
       /\ mg_merged[k2].value = mg_existing[k2].value

(***************************************************************************)
(* Further claims about _consolidate_entities.                             *)
(***************************************************************************)
\* the variants of the family g that the input holds
VariantsFound(g) == Range(entity_groups[g]) \cap DOMAIN cs_entities

\* the highest confidence among the variants found
BestConfidence(g) ==
  CHOOSE c \in {cs_entities[key].confidence : key \in VariantsFound(g)} :
    \A key \in VariantsFound(g) : cs_entities[key].confidence <= c

VariantsAgree(g) ==
  Cardinality({cs_entities[key].value : key \in VariantsFound(g)}) = 1

\* the canonical slot of the family g has the value of a variant of the
\* highest confidence, and its confidence_sources list every variant found,
\* each once, with its value and confidence
CanonicalIsBest(g) ==
  LET canonical == cs_consolidated[entity_groups[g][1]] IN
  /\ \E key \in VariantsFound(g) :
       /\ cs_entities[key].confidence = BestConfidence(g)
       /\ canonical.value = cs_entities[key].value
  /\ "confidence_sources" \in DOMAIN canonical
  /\ Len(canonical.confidence_sources) = Cardinality(VariantsFound(g))
  /\ Range(canonical.confidence_sources) =
       {[source |-> key, confidence |-> cs_entities[key].confidence,
         value |-> cs_entities[key].value] : key \in VariantsFound(g)}

\* the confidence and the agreement mark of the canonical slot when the
\* variants are compared
AgreementMarked(g) ==
  LET canonical == cs_consolidated[entity_groups[g][1]] IN
  /\ "agreement" \in DOMAIN canonical
  /\ IF VariantsAgree(g)
     THEN /\ canonical.confidence =
               (IF 98 < BestConfidence(g) + 5 * (Cardinality(VariantsFound(g)) - 1)
                THEN 98
                ELSE BestConfidence(g) + 5 * (Cardinality(VariantsFound(g)) - 1))
          /\ canonical.agreement = "high"
     ELSE /\ canonical.confidence = BestConfidence(g)
          /\ canonical.agreement = "low"

\* C20 as stated: consolidation of a family takes the variant of the highest
\* confidence as the canonical value and lists every variant found in
\* confidence_sources; if all variants found have the same value the
\* confidence becomes min(0.98, best + 0.05 * (count - 1)) with agreement
\* 'high', otherwise it stays that of the best variant with agreement 'low'.
C20_ConsolidationBoostsAgreement ==
  cs_pc = "done" =>
    \A g \in 1..Len(entity_groups) :
      VariantsFound(g) # {} => (CanonicalIsBest(g) /\ AgreementMarked(g))

\* C20 amended: the confidence rule and the agreement mark apply when more
\* than one variant was found; a single variant is taken with its own
\* confidence and gets no agreement mark.
C20_ConsolidationBoostsSeveralVariants ==
  cs_pc = "done" =>
    \A g \in 1..Len(entity_groups) :
      VariantsFound(g) # {} =>
        /\ CanonicalIsBest(g)
        /\ Cardinality(VariantsFound(g)) > 1 => AgreementMarked(g)
        /\ Cardinality(VariantsFound(g)) = 1 =>
             /\ cs_consolidated[entity_groups[g][1]].confidence = BestConfidence(g)
             /\ "agreement" \notin DOMAIN cs_consolidated[entity_groups[g][1]]

\* two variants with different values were found, the second one more
\* confident: it is the canonical value, marked 'low'
C20_Witness ==
  /\ cs_pc = "done"
  /\ VariantsFound(1) = {"deceased_name", "deceased_name_morphology"}
  /\ cs_entities["deceased_name"].value # cs_entities["deceased_name_morphology"].value
  /\ cs_entities["deceased_name"].confidence < cs_entities["deceased_name_morphology"].confidence
  /\ cs_consolidated["deceased_name"].value = cs_entities["deceased_name_morphology"].value
  /\ cs_consolidated["deceased_name"].agreement = "low"

\* ---------------------------------------------------------------------------
\* C21: a finished call of HybridOrchestrator.extract has run Phase 0 and
\* Phase 1, the grammar templates merged into the pattern entities; Phase 2 ran
\* only if the entities accumulated after Phase 1 lack a deceased slot, lack a
\* dedicator slot or are fewer than 3; Phase 3 ran only if the entities
\* accumulated after Phase 2 hold a multiple-dedicator slot or are more than
\* 8; and a phase whose need is false was skipped, its backend left unloaded.
AfterPhase1 ==
  Phase01(hy_phases["pattern_matching"], hy_phases["grammar_templates"],
          hy_verbose)

AfterPhase2 ==
  IF "morphology" \in DOMAIN hy_phases
  THEN _merge_entities(AfterPhase1, hy_phases["morphology"], TRUE, hy_verbose,
                       "morphology")
  ELSE AfterPhase1

MorphologyNeedStated(entities) ==
  \/ ~(\E key \in DOMAIN entities : key \in DeceasedSlots)
  \/ ~(\E key \in DOMAIN entities : key \in DedicatorSlots)
  \/ Cardinality(DOMAIN entities) < 3

DependencyNeedStated(entities) ==
  \/ \E key \in DOMAIN entities : key \in MultipleDedicatorSlots
  \/ Cardinality(DOMAIN entities) > 8

C21_LazyEscalationOrder ==
  hy_pc \in {"returned", "raised"} =>
    /\ {"pattern_matching", "grammar_templates"} \subseteq DOMAIN hy_phases
    /\ "morphology" \in DOMAIN hy_phases => MorphologyNeedStated(AfterPhase1)
    /\ "dependencies" \in DOMAIN hy_phases => DependencyNeedStated(AfterPhase2)
    /\ ~MorphologyNeedStated(AfterPhase1) =>
         /\ "morphology" \notin DOMAIN hy_phases
         /\ _MORPHOLOGY_ANALYZER = NoBackend
         /\ hy_parser._morphology_analyzer = FALSE
    /\ ~DependencyNeedStated(AfterPhase2) =>
         /\ "dependencies" \notin DOMAIN hy_phases
         /\ _DEPENDENCY_PARSER = NoBackend
         /\ hy_parser._dependency_parser = FALSE
    /\ hy_pc = "returned" =>
         hy_result =
           _consolidate_entities(
             _filter_by_confidence(
               IF "dependencies" \in DOMAIN hy_phases
               THEN _merge_entities(AfterPhase2, hy_phases["dependencies"],
                                    TRUE, hy_verbose, "dependencies")
               ELSE AfterPhase2,
               hy_parser.min_confidence))

\* a call with both backends switched on and available that needed Phase 2,
\* ran it, and then skipped Phase 3
C21_Witness ==
  /\ hy_pc = "returned"
  /\ hy_parser.use_morphology /\ hy_parser.use_dependencies
  /\ cltk = "available"
  /\ "morphology" \in DOMAIN hy_phases
  /\ "dependencies" \notin DOMAIN hy_phases
  /\ _DEPENDENCY_PARSER = NoBackend

\* a call with both backends switched on and available that skipped Phase 2
C21_WitnessSkip ==
  /\ hy_pc = "returned"
  /\ hy_parser.use_morphology /\ hy_parser.use_dependencies
  /\ cltk = "available"
  /\ "morphology" \notin DOMAIN hy_phases

\* ---------------------------------------------------------------------------
\* C22: for each category with an ordered rule list, the entity of the
\* category is the value and the confidence of the first rule of the table
\* that matches the normalized text, wherever in the text it and the later
\* rules match; a category none of whose rules matches has no entity; and
\* when a feminine nomen rule matches (the first 13 rules of nomen_patterns)
\* the nomen is a feminine one.
RuleCategories ==
  {[key |-> "praenomen", rules |-> praenomen_patterns],
   [key |-> "nomen", rules |-> nomen_patterns],
   [key |-> "cognomen", rules |-> cognomen_patterns],
   [key |-> "relationships", rules |-> relationship_patterns],
   [key |-> "location", rules |-> location_patterns],
   [key |-> "tribe", rules |-> tribe_patterns]}

\* the rules of a table that match the normalized text nt
MatchingRules(rules, nt) ==
  {k \in 1..Len(rules) : Matched(re_search(rules[k].re, nt))}

C22_FirstMatchingRuleWins ==
  pt_pc = "done" =>
    LET nt == normalized_text(pt_text)
        FirstOf(c, hits) ==
          IF hits = {} THEN c.key \notin DOMAIN pt_entities
          ELSE /\ c.key \in DOMAIN pt_entities
               /\ \E k \in hits :
                    /\ \A j \in hits : k <= j
                    /\ pt_entities[c.key] =
                         [value |-> c.rules[k].value,
                          confidence |-> c.rules[k].confidence]
        Feminine(hits) ==
          hits \cap (1..13) # {} =>
            \E k \in 1..13 : pt_entities["nomen"].value = nomen_patterns[k].value
    IN /\ \A c \in RuleCategories : FirstOf(c, MatchingRules(c.rules, nt))
       /\ Feminine(MatchingRules(nomen_patterns, nt))

\* a text in which a masculine nomen stands before a feminine one, and the
\* feminine rule won
C22_Witness ==
  /\ pt_pc = "done"
  /\ LET nt == normalized_text(pt_text)
         Both(hits) ==
           \E f \in hits \cap (1..13) : \E m \in hits \ (1..13) :
             /\ re_search(nomen_patterns[m].re, nt).start
                  < re_search(nomen_patterns[f].re, nt).start
             /\ pt_entities["nomen"].value = nomen_patterns[f].value
     IN Both(MatchingRules(nomen_patterns, nt))

(***************************************************************************)
(* Roman numerals: every number of 1..MaxNumber written in the standard    *)
(* subtractive notation, with V or (as the normalized text has it) with U, *)
(* is converted, and the years-lived step of the pattern extractor runs on *)
(* the text "an <numeral>".                                                *)
(***************************************************************************)
MaxNumber == 3999

\* one decimal digit d written with the signs for 1, 5 and 10 of its place
RomanDigit(d, one, five, ten) ==
  CASE d = 0 -> << >>
    [] d = 1 -> <<one>>
    [] d = 2 -> <<one, one>>
    [] d = 3 -> <<one, one, one>>
    [] d = 4 -> <<one, five>>
    [] d = 5 -> <<five>>
    [] d = 6 -> <<five, one>>
    [] d = 7 -> <<five, one, one>>
    [] d = 8 -> <<five, one, one, one>>
    [] d = 9 -> <<one, ten>>

\* the well-formed numeral of n
StandardNumeral(n) ==
  RomanDigit(n \div 1000, "M", "M", "M")
  \o RomanDigit((n \div 100) % 10, "C", "D", "M")
  \o RomanDigit((n \div 10) % 10, "X", "L", "C")
  \o RomanDigit(n % 10, "I", "V", "X")

InitRoman ==
  /\ rn_number \in 1..MaxNumber
  /\ rn_roman \in {StandardNumeral(rn_number),
                   Replace(StandardNumeral(rn_number), <<"V">>, <<"U">>)}
  /\ rn_pc = "ready"
  /\ rn_arabic = 0
  /\ rn_entities = << >>
  /\ SpacingIdle /\ ReconcileIdle /\ PatternIdle /\ HybridIdle /\ MergeIdle
  /\ ConsolidateIdle /\ FileWritersIdle /\ GrammarIdle /\ BackendsIdle
  /\ EdhIdle /\ FormulasIdle /\ DownloadIdle

\* _roman_to_arabic(roman)
RomanToArabic ==
  /\ rn_pc = "ready"
  /\ rn_arabic' = _roman_to_arabic(rn_roman)
  /\ rn_pc' = "converted"
  /\ UNCHANGED <<rn_number, rn_roman, rn_entities>>
  /\ UNCHANGED <<old_vars, fw_vars, gr_vars, bk_vars, ed_vars, fm_vars, dl_vars>>

\* step 5 of _extract_entities_stub on the text "an <numeral>"
YearsLived ==
  /\ rn_pc = "converted"
  /\ rn_entities' =
       years_match(NoEntities, normalized_text(<<"a","n"," ">> \o rn_roman))
  /\ rn_pc' = "done"
  /\ UNCHANGED <<rn_number, rn_roman, rn_arabic>>
  /\ UNCHANGED <<old_vars, fw_vars, gr_vars, bk_vars, ed_vars, fm_vars, dl_vars>>

NextRoman == RomanToArabic \/ YearsLived

SpecRoman == InitRoman /\ [][NextRoman]_vars

\* ---------------------------------------------------------------------------
\* C23: _roman_to_arabic returns n for the well-formed numeral of every n,
\* written with V or with U, and the pattern extractor emits years_lived for
\* the numeral exactly when that number lies in 1..150, the entity's value
\* being the number in decimal digits.
C23_RomanNumeralValue ==
  /\ rn_pc \in {"converted", "done"} => rn_arabic = rn_number
  /\ rn_pc = "done" =>
       /\ "years_lived" \in DOMAIN rn_entities =>
            /\ 1 <= rn_number /\ rn_number <= 150
            /\ rn_entities["years_lived"].value = Str(rn_number)
       /\ (1 <= rn_number /\ rn_number <= 150) =>
            "years_lived" \in DOMAIN rn_entities

\* 144 written CXLIU: two subtractive pairs and the U of the normalized text
C23_Witness ==
  /\ rn_pc = "done"
  /\ rn_roman = <<"C","X","L","I","U">>
  /\ rn_arabic = 144
  /\ rn_entities["years_lived"].value = <<"1","4","4">>

\* ---------------------------------------------------------------------------
\* the recorded changes by ascending position in the text
AscendingAdjustments ==
  SortStable([i \in 1..Len(adjustments) |->
                << <<adjustments[i].adj_start>>, adjustments[i] >>])

\* rules (a), (b), (c): which one a change falls under for an annotation
RuleA(ann, a) == a.adj_end <= ann[1]
RuleB(ann, a) == ~RuleA(ann, a) /\ a.adj_start <= ann[1] /\ ann[1] < a.adj_end
RuleC(ann, a) ==
  ~RuleA(ann, a) /\ ~RuleB(ann, a) /\ ann[1] < a.adj_start /\ a.adj_start < ann[2]

RECURSIVE SumChanges(_, _)
SumChanges(adj, ks) ==
  IF ks = {} THEN 0
  ELSE LET k == CHOOSE x \in ks : TRUE
       IN adj[k].length_change + SumChanges(adj, ks \ {k})

\* the offsets the rules give an annotation when the changes adj are applied
\* one after the other in the order of the list: the end moves by every
\* change that falls under a rule; the start is that of the last change
\* under rule (b), or else the annotation's own, moved by the changes under
\* rule (a) that come later in the list
OffsetsInOrder(ann, adj) ==
  LET bs == {k \in 1..Len(adj) : RuleB(ann, adj[k])}
      last == IF bs = {} THEN 0 ELSE CHOOSE k \in bs : \A j \in bs : j <= k
      As == {k \in 1..Len(adj) : k > last /\ RuleA(ann, adj[k])}
      hit == {k \in 1..Len(adj) :
                RuleA(ann, adj[k]) \/ RuleB(ann, adj[k]) \/ RuleC(ann, adj[k])}
  IN <<(IF last = 0 THEN ann[1] ELSE adj[last].adj_start) + SumChanges(adj, As),
       ann[2] + SumChanges(adj, hit)>>

\* the annotations the call returns when the changes adj are applied in the
\* order of the list
RECURSIVE OutputInOrder(_, _)
OutputInOrder(anns, adj) ==
  IF anns = << >> THEN << >>
  ELSE LET ann == Head(anns)
           rest == OutputInOrder(Tail(anns), adj)
           Keep(new) ==
             IF 0 <= new[1] /\ new[1] < new[2] /\ new[2] <= Len(current_text)
             THEN << <<new[1], new[2], ann[3]>> >> \o rest
             ELSE rest
       IN IF Len(ann) # 3 THEN <<ann>> \o rest
          ELSE Keep(OffsetsInOrder(ann, adj))

\* C24 (as stated): the adjusted offsets of every annotation are those
\* obtained by applying rules (a), (b), (c) to the recorded changes in
\* ascending order of their position in the text.
C24_ChangesAppliedInTextOrder ==
  sp_pc = "done" =>
    adjusted_annotations = OutputInOrder(annotations, AscendingAdjustments)

\* C24 (amended): the adjusted offsets of every annotation are those obtained
\* by applying rules (a), (b), (c) to the changes in the order in which they
\* were recorded, which is the order of their patterns in the table of fixes.
C24_ChangesAppliedInRecordedOrder ==
  sp_pc = "done" =>
    adjusted_annotations = OutputInOrder(annotations, adjustments)

\* two changes recorded right to left, and an annotation whose offsets in
\* the recorded order differ from those in text order
C24_Witness ==
  /\ sp_pc = "done"
  /\ Len(adjustments) = 2
  /\ adjustments[2].adj_start < adjustments[1].adj_start
  /\ Len(annotations) = 1
  /\ Len(adjusted_annotations) = 1
  /\ adjusted_annotations # OutputInOrder(annotations, AscendingAdjustments)

(***************************************************************************)
(* find_and_merge_formulas on its own: transcriptions of up to             *)
(* MaxFormulaTokens tokens that are, or are parts of, formulas.            *)
(***************************************************************************)
FormulaVocab ==
  { <<"D">>, <<"M">>, <<"S">>, <<"T"," ","T"," ","L">>, <<"H">>, <<"E">>,
    <<"B">>, <<"d","i","s"," ","m","a","n","i","b","u","s">>,
    <<"s","a","c","r","u","m">> }

MaxFormulaTokens == 4

FormulaTexts ==
  UNION { { JoinWords(ws) : ws \in [1..n -> FormulaVocab] } :
          n \in 1..MaxFormulaTokens }

InitFormulas ==
  /\ fm_text \in FormulaTexts
  /\ fm_pc = "ready"
  /\ fm_formulas = << >>
  /\ SpacingIdle /\ ReconcileIdle /\ PatternIdle /\ HybridIdle /\ MergeIdle
  /\ ConsolidateIdle /\ FileWritersIdle /\ GrammarIdle /\ BackendsIdle
  /\ EdhIdle /\ RomanIdle /\ DownloadIdle

\* find_and_merge_formulas(transcription)
FindAndMergeFormulas ==
  /\ fm_pc = "ready"
  /\ fm_formulas' = find_and_merge_formulas(fm_text)
  /\ fm_pc' = "done"
  /\ UNCHANGED fm_text
  /\ UNCHANGED <<old_vars, fw_vars, gr_vars, bk_vars, ed_vars, rn_vars, dl_vars>>

NextFormulas == FindAndMergeFormulas

SpecFormulas == InitFormulas /\ [][NextFormulas]_vars

\* ---------------------------------------------------------------------------
\* two spans share a character
SpansOverlap(a, b) == a[1] < b[2] /\ b[1] < a[2]

\* the matches of all the patterns in the transcription, as a set
FormulaMatches(t) ==
  LET found == AllFormulaMatches(LowerText(t), 1)
  IN {found[i] : i \in 1..Len(found)}

\* C25: the spans find_and_merge_formulas returns are pairwise
\* non-overlapping, and of two overlapping formula matches of which the
\* longer one starts at or before the shorter one, the longer one is
\* returned and the shorter one is not.
C25_LongerFormulaKept ==
  fm_pc = "done" =>
    LET returned == {fm_formulas[i] : i \in 1..Len(fm_formulas)}
        LongerWins(matches) ==
          \A a \in matches : \A b \in matches :
            (/\ SpansOverlap(a, b)
             /\ a[2] - a[1] > b[2] - b[1]
             /\ a[1] <= b[1])
            => (a \in returned /\ b \notin returned)
    IN /\ \A i \in 1..Len(fm_formulas) : \A j \in 1..Len(fm_formulas) :
            i # j => ~SpansOverlap(fm_formulas[i], fm_formulas[j])
       /\ returned \subseteq FormulaMatches(fm_text)
       /\ LongerWins(FormulaMatches(fm_text))

\* 'D M S T T L' holds the matches 'D M S', 'D M' and 'S T T L': 'D M S' is
\* returned, 'D M' inside it is not (nor is 'S T T L', which starts later)
C25_Witness ==
  /\ fm_pc = "done"
  /\ fm_text = <<"D"," ","M"," ","S"," ","T"," ","T"," ","L">>
  /\ <<0, 3, "DEDICATION_TO_THE_GODS">> \in FormulaMatches(fm_text)
  /\ <<4, 11, "FUNERARY_FORMULA">> \in FormulaMatches(fm_text)
  /\ fm_formulas = << <<0, 5, "DEDICATION_TO_THE_GODS">> >>

\* ---------------------------------------------------------------------------
\* the transcription from 30 characters before start to 30 characters after
\* end, in lower case, holds both words of a measurement phrase
MeasurementNearby(start, end) ==
  LET from == IF start > 30 THEN start - 30 ELSE 0
      to == IF end + 30 < Len(transcription) THEN end + 30
            ELSE Len(transcription)
      Holds(window) ==
        \/ Contains(window, <<"p","e","d","e","s">>)
           /\ Contains(window, <<"f","r","o","n","t","e">>)
        \/ Contains(window, <<"l","o","c","u","s">>)
           /\ Contains(window, <<"p","e","d","u","m">>)
  IN Holds(LowerText(SubSeq(transcription, from + 1, to)))

\* C26: no annotation in the output of fix_single_annotation carries an
\* age-category label when the transcription within 30 characters either side
\* of its span contains both 'pedes' and 'fronte', or both 'locus' and 'pedum'.
C26_NoAgeLabelInMeasurementContext ==
  rc_pc \in {"once", "twice"} =>
    \A i \in 1..Len(final) :
      final[i][3] \in {"AGE_PREFIX", "AGE_YEARS", "AGE_MONTHS", "AGE_DAYS"}
        => ~MeasurementNearby(final[i][1], final[i][2])

(***************************************************************************)
(* fix_single_annotation on transcriptions made of words of the three      *)
(* closed word lists, in lower and in upper case.                          *)
(***************************************************************************)
WordListVocab ==
  { <<"v","i","x","i","t">>, <<"V","I","X">>, <<"P","A","T","R","I">>,
    <<"f","e","c","i","t">> }

WordListTexts ==
  UNION { { JoinWords(ws) : ws \in [1..n -> WordListVocab] } : n \in 1..MaxWords }

InitWordLists ==
  /\ rc_pc = "ready"
  /\ transcription \in WordListTexts
  /\ rc_annotations = << >>
  /\ final = << >>
  /\ final_again = << >>
  /\ SpacingIdle
  /\ PatternIdle
  /\ HybridIdle
  /\ MergeIdle
  /\ ConsolidateIdle
  /\ NewIdle

SpecWordLists == InitWordLists /\ [][NextReconcile]_vars

\* ---------------------------------------------------------------------------
\* C27: every annotation in the output of fix_single_annotation whose text,
\* in lower case, is in the age-marker word list is labelled AGE_PREFIX, in
\* the kinship word list RELATIONSHIP, and in the dedication-verb word list
\* FUNERARY_FORMULA, whatever label it carried on input.
C27_WordListsDecideLabel ==
  rc_pc \in {"once", "twice"} =>
    \A i \in 1..Len(final) :
      LET Labelled(word, label) ==
            /\ word \in age_prefix_words => label = "AGE_PREFIX"
            /\ word \in relationship_words => label = "RELATIONSHIP"
            /\ word \in funerary_words => label = "FUNERARY_FORMULA"
      IN Labelled(LowerText(SubSeq(transcription, final[i][1] + 1, final[i][2])),
                  final[i][3])

(***************************************************************************)
(* Phase 3 of search_edh_inscriptions: the items found are handed to a     *)
(* ThreadPoolExecutor whose workers run save_inscription, and the main     *)
(* thread gathers the results as the futures complete.                     *)
(***************************************************************************)
MaxItems == 3
ItemIds == {0, 1, 2}
WorkerCounts == {1, 2, 60}

\* workers_count = min(workers, 50)
workers_count(workers) == IF workers < 50 THEN workers ELSE 50

AllFutures(state) == [i \in 1..Len(dl_items) |-> state]

\* a result that is a path (not None)
IsPath(result) == result \in {"saved", "existed"}

\* (the loop body without the test of the result)
AppendAlways(files, result, id) == Append(files, id)
\* if result: saved_files.append(result)
AppendResult(files, result, id) ==
  IF IsPath(result) THEN Append(files, id) ELSE files

\* the tasks a worker is running
Running == {i \in 1..Len(dl_items) : dl_futures[i] \in {"running", "first", "retry"}}

InitDownload ==
  /\ dl_items \in UNION { [1..n -> ItemIds] : n \in 1..MaxItems }
  /\ dl_workers \in WorkerCounts
  /\ dl_resume \in BOOLEAN
  /\ dl_files \in {{}, {1}}
  /\ dl_pc = "submitting"
  /\ dl_futures = AllFutures("none")
  /\ dl_results = AllFutures("unset")
  /\ dl_submits = AllFutures(0)
  /\ dl_attempts = AllFutures(0)
  /\ dl_collected = {}
  /\ dl_saved_files = << >>
  /\ SpacingIdle /\ ReconcileIdle /\ PatternIdle /\ HybridIdle /\ MergeIdle
  /\ ConsolidateIdle /\ FileWritersIdle /\ GrammarIdle /\ BackendsIdle
  /\ EdhIdle /\ RomanIdle /\ FormulasIdle

DownloadUnchanged ==
  UNCHANGED <<old_vars, fw_vars, gr_vars, bk_vars, ed_vars, rn_vars, fm_vars>>

\* executor.submit(save_inscription, item), for the next item of all_items
Submit ==
  /\ dl_pc = "submitting"
  /\ \E i \in 1..Len(dl_items) :
       /\ dl_futures[i] = "none"
       /\ \A j \in 1..(i - 1) : dl_futures[j] # "none"
       /\ dl_futures' = [dl_futures EXCEPT ![i] = "queued"]
       /\ dl_submits' = [dl_submits EXCEPT ![i] = @ + 1]
       /\ dl_pc' = IF i = Len(dl_items) THEN "collecting" ELSE "submitting"
  /\ UNCHANGED <<dl_workers, dl_resume, dl_items, dl_files, dl_results,
                 dl_attempts, dl_collected, dl_saved_files>>
  /\ DownloadUnchanged

\* a free worker takes the oldest queued task
StartTask ==
  /\ Cardinality(Running) < workers_count(dl_workers)
  /\ \E i \in 1..Len(dl_items) :
       /\ dl_futures[i] = "queued"
       /\ \A j \in 1..(i - 1) : dl_futures[j] # "queued"
       /\ dl_futures' = [dl_futures EXCEPT ![i] = "running"]
  /\ UNCHANGED <<dl_pc, dl_workers, dl_resume, dl_items, dl_files, dl_results,
                 dl_submits, dl_attempts, dl_collected, dl_saved_files>>
  /\ DownloadUnchanged

\* save_inscription up to the first open: an item without an id gives None,
\* a file that exists under resume gives its path
FindFile ==
  /\ \E i \in 1..Len(dl_items) :
       /\ dl_futures[i] = "running"
       /\ IF dl_items[i] = 0
          THEN /\ dl_results' = [dl_results EXCEPT ![i] = "no_id"]
               /\ dl_futures' = [dl_futures EXCEPT ![i] = "done"]
          ELSE IF dl_resume /\ dl_items[i] \in dl_files
          THEN /\ dl_results' = [dl_results EXCEPT ![i] = "existed"]
               /\ dl_futures' = [dl_futures EXCEPT ![i] = "done"]
          ELSE /\ dl_futures' = [dl_futures EXCEPT ![i] = "first"]
               /\ UNCHANGED dl_results
  /\ UNCHANGED <<dl_pc, dl_workers, dl_resume, dl_items, dl_files, dl_submits,
                 dl_attempts, dl_collected, dl_saved_files>>
  /\ DownloadUnchanged

\* the first open and json.dump: it succeeds, or it raises (with the file
\* created or not) and the task goes on to the retry
FirstSave ==
  /\ \E i \in 1..Len(dl_items) : \E ok \in BOOLEAN : \E created \in BOOLEAN :
       /\ dl_futures[i] = "first"
       /\ dl_attempts' = [dl_attempts EXCEPT ![i] = @ + 1]
       /\ dl_files' = IF ok \/ created THEN dl_files \cup {dl_items[i]}
                      ELSE dl_files
       /\ dl_results' = IF ok THEN [dl_results EXCEPT ![i] = "saved"]
                        ELSE dl_results
       /\ dl_futures' = [dl_futures EXCEPT ![i] = IF ok THEN "done" ELSE "retry"]
  /\ UNCHANGED <<dl_pc, dl_workers, dl_resume, dl_items, dl_submits,
                 dl_collected, dl_saved_files>>
  /\ DownloadUnchanged

\* the retry after time.sleep(1): it succeeds, or it raises and gives None
RetrySave ==
  /\ \E i \in 1..Len(dl_items) : \E ok \in BOOLEAN : \E created \in BOOLEAN :
       /\ dl_futures[i] = "retry"
       /\ dl_attempts' = [dl_attempts EXCEPT ![i] = @ + 1]
       /\ dl_files' = IF ok \/ created THEN dl_files \cup {dl_items[i]}
                      ELSE dl_files
       /\ dl_results' = [dl_results EXCEPT ![i] = IF ok THEN "saved" ELSE "failed"]
       /\ dl_futures' = [dl_futures EXCEPT ![i] = "done"]
  /\ UNCHANGED <<dl_pc, dl_workers, dl_resume, dl_items, dl_submits,
                 dl_collected, dl_saved_files>>
  /\ DownloadUnchanged

\* one round of 'for i, future in enumerate(as_completed(futures), 1)'
Collect ==
  /\ dl_pc = "collecting"
  /\ \E i \in 1..Len(dl_items) :
       /\ dl_futures[i] = "done"
       /\ i \notin dl_collected
       /\ dl_collected' = dl_collected \cup {i}
       /\ dl_saved_files' = AppendResult(dl_saved_files, dl_results[i], dl_items[i])
  /\ UNCHANGED <<dl_pc, dl_workers, dl_resume, dl_items, dl_files, dl_futures,
                 dl_results, dl_submits, dl_attempts>>
  /\ DownloadUnchanged

\* as_completed is exhausted, the with block ends: return saved_files
ReturnSavedFiles ==
  /\ dl_pc = "collecting"
  /\ dl_collected = 1..Len(dl_items)
  /\ dl_pc' = "returned"
  /\ UNCHANGED <<dl_workers, dl_resume, dl_items, dl_files, dl_futures,
                 dl_results, dl_submits, dl_attempts, dl_collected,
                 dl_saved_files>>
  /\ DownloadUnchanged

NextDownload ==
  \/ Submit \/ StartTask \/ FindFile \/ FirstSave \/ RetrySave \/ Collect
  \/ ReturnSavedFiles

SpecDownload == InitDownload /\ [][NextDownload]_vars

\* ---------------------------------------------------------------------------
\* how often the path of id stands in saved_files
RECURSIVE CountPath(_, _)
CountPath(files, id) ==
  IF files = << >> THEN 0
  ELSE (IF Head(files) = id THEN 1 ELSE 0) + CountPath(Tail(files), id)

\* C28: every item found is submitted to the pool exactly once (never more
\* than once, and once when the submissions are over), its save is attempted
\* at most twice, the second time only after a failure, at most
\* min(workers, 50) tasks run at the same time, and the list returned holds
\* exactly one path for each item whose save succeeded or whose file already
\* existed under resume, and nothing for the others.
C28_OneSubmissionTwoAttemptsOnePath ==
  dl_pc # "idle" =>
    /\ \A i \in 1..Len(dl_items) :
         /\ dl_submits[i] <= 1
         /\ dl_pc \in {"collecting", "returned"} => dl_submits[i] = 1
         /\ dl_attempts[i] <= 2
         /\ dl_results[i] = "existed" => (dl_resume /\ dl_attempts[i] = 0)
         /\ dl_results[i] = "no_id" => dl_attempts[i] = 0
         /\ dl_results[i] = "failed" => dl_attempts[i] = 2
         /\ dl_results[i] = "saved" => dl_attempts[i] \in {1, 2}
    /\ Cardinality({i \in 1..Len(dl_items) :
                      dl_futures[i] \in {"running", "first", "retry"}})
         <= (IF dl_workers < 50 THEN dl_workers ELSE 50)
    /\ dl_pc = "returned" =>
         /\ \A i \in 1..Len(dl_items) : dl_futures[i] = "done"
         /\ Len(dl_saved_files) =
              Cardinality({i \in 1..Len(dl_items) :
                             dl_results[i] \in {"saved", "existed"}})
         /\ \A id \in ItemIds :
              CountPath(dl_saved_files, id) =
                Cardinality({i \in 1..Len(dl_items) :
                               /\ dl_items[i] = id
                               /\ dl_results[i] \in {"saved", "existed"}})

\* three items and two workers: one save succeeded at once, one on the
\* retry, one failed twice, and two paths were returned
C28_Witness ==
  /\ dl_pc = "returned"
  /\ dl_workers = 2
  /\ Len(dl_items) = 3
  /\ \E i \in 1..3 : dl_results[i] = "saved" /\ dl_attempts[i] = 1
  /\ \E i \in 1..3 : dl_results[i] = "saved" /\ dl_attempts[i] = 2
  /\ \E i \in 1..3 : dl_results[i] = "failed"
  /\ Len(dl_saved_files) = 2

\* ---------------------------------------------------------------------------
\* C29: the result of extract_entities holds the fallback entity 'text' only
\* when no phase recognized any entity: 'text' never stands next to an entity
\* produced by the pattern, grammar-template, morphology or dependency phase.
C29_SentinelStandsAlone ==
  (hy_pc = "returned" /\ "text" \in DOMAIN hy_result) =>
    /\ DOMAIN hy_result = {"text"}
    /\ \A phase \in DOMAIN hy_phases : DOMAIN hy_phases[phase] \subseteq {"text"}

(***************************************************************************)
(* The pagination loop followed for as long as it runs.  The loop can run  *)
(* for ever, so offset and the count of requests are kept modulo a bound;  *)
(* no test of the loop reads either of them.  The loop is sequential code: *)
(* the only fairness is that the thread keeps taking its next step; the    *)
(* server's answers are not constrained.                                   *)
(***************************************************************************)
MaxPages == 2

SearchPageForEver ==
  /\ ed_pc = "searching"
  /\ all_items < max_results
  /\ \E response \in PageResponses :
     \E retry \in IF response.failed THEN PageResponses ELSE {response} :
       \E after \in {SearchIteration(all_items, offset, max_results,
                                     response, retry)} :
         /\ all_items' = after.all_items
         /\ offset' = after.offset % (MaxPages * page_size)
         /\ ed_requests' = (ed_requests + after.requests) % (MaxRequests + 1)
         /\ ed_pc' = IF after.break THEN "found" ELSE "searching"
  /\ UNCHANGED <<max_results, saved_files>>
  /\ UNCHANGED <<old_vars, lt_vars, fw_vars, gr_vars, bk_vars>>

NextEdhForEver ==
  \/ SearchPageForEver
  \/ LeaveSearchLoop
  \/ DownloadAll

SpecEdhFair ==
  InitEdh /\ [][NextEdhForEver]_vars /\ WF_vars(NextEdhForEver)

\* ---------------------------------------------------------------------------
\* C30: the pagination loop of search_edh_inscriptions terminates under
\* every sequence of page responses and request failures.
C30_PaginationTerminates == <>(ed_pc # "searching")

====
